---- MODULE Spec2Model ----
(***************************************************************************)
(* Toolium driver construction (toolium/config_driver.py): the capability  *)
(* resolver, the property type coercion, the recursive dictionary merge    *)
(* and create_driver with its remote and local paths.                      *)
(*                                                                         *)
(* Python values are tagged records [t |-> tag, v |-> payload]:            *)
(*   str   v = the string as a sequence of symbols; a symbol is one        *)
(*           character or one hyphen-free, bracket-free chunk of           *)
(*           characters ("chrome", "76", "windows_10"), so splitting and   *)
(*           prefix tests work on the sequence as they do on the string    *)
(*   int   v = the integer          bool  v = TRUE / FALSE                 *)
(*   list, tuple  v = sequence of values      set  v = set of values       *)
(*   dict  v = sequence of items [k |-> key, v |-> value] in insertion     *)
(*           order, keys unique                                            *)
(* An operation that can raise returns [exc |-> name or "none", ...].      *)
(***************************************************************************)
EXTENDS Integers, Sequences, FiniteSets, TLC

VARIABLES
  fn,                   \* pure-function runs: the function that was applied ("none" before)
  arg,                  \* pure-function runs: its arguments
  out,                  \* pure-function runs: its outcome
  config,               \* the DriverConfig shared by reference (self.config)
  DesiredCapabilities,  \* selenium's class-level base capability dictionaries
  base,                 \* last outcome of _get_capabilities_from_driver_type
  session,              \* last session request issued to a remote endpoint
  local,                \* last local driver class constructed, with its capabilities
  received,             \* capabilities the last local setup routine was called with
  requests,             \* number of session requests the last create_driver issued
  driver,               \* what the last create_driver returned
  raised,               \* the exception the last create_driver propagated
  message,              \* str() of that exception
  log,                  \* logger.error records of the last create_driver
  calls,                \* number of create_driver calls made so far
  page,                 \* the playwright page handle with the state of its browsing context
  jira,                 \* the globals of toolium.jira
  jira_config,          \* the Jira section of the configuration
  reported,             \* add_jira_status calls (enabled, with a test key) since the last clear
  reports,              \* number of calls into toolium.jira made so far
  web_element           \* the element of the checkbox, with its state in the page

vars ==
  <<fn, arg, out, config, DesiredCapabilities, base, session, local, received, requests,
    driver, raised, message, log, calls, page, jira, jira_config, reported, reports,
    web_element>>

-----------------------------------------------------------------------------
(* Values *)

Str(s) == [t |-> "str", v |-> s]

\* A string of one chunk.
S(x) == Str(<<x>>)

Num(n) == [t |-> "int", v |-> n]

Bool(b) == [t |-> "bool", v |-> b]

List(s) == [t |-> "list", v |-> s]

Tuple(s) == [t |-> "tuple", v |-> s]

SetOf(s) == [t |-> "set", v |-> s]

Dict(items) == [t |-> "dict", v |-> items]

None == [t |-> "none", v |-> 0]

Item(k, v) == [k |-> k, v |-> v]

IsDict(x) == x.t = "dict"

Keys(d) == {d.v[i].k : i \in DOMAIN d.v}

HasKey(d, k) == k \in Keys(d)

\* d[k]
Get(d, k) == d.v[CHOOSE i \in DOMAIN d.v : d.v[i].k = k].v

\* d.get(k, default)
GetOr(d, k, default) == IF HasKey(d, k) THEN Get(d, k) ELSE default

\* d[k] = v: an existing key keeps its place, a new key goes last.
Put(d, k, v) ==
  IF HasKey(d, k)
    THEN Dict([i \in DOMAIN d.v |-> IF d.v[i].k = k THEN Item(k, v) ELSE d.v[i]])
    ELSE Dict(Append(d.v, Item(k, v)))

-----------------------------------------------------------------------------
(* Strings *)

RECURSIVE Join(_, _)
\* sep.join(fields)
Join(fields, sep) ==
  IF Len(fields) = 0 THEN <<>>
  ELSE IF Len(fields) = 1 THEN Head(fields)
  ELSE Head(fields) \o <<sep>> \o Join(Tail(fields), sep)

RECURSIVE SplitFrom(_, _, _)
SplitFrom(s, sep, cur) ==
  IF s = <<>> THEN <<cur>>
  ELSE IF Head(s) = sep THEN <<cur>> \o SplitFrom(Tail(s), sep, <<>>)
  ELSE SplitFrom(Tail(s), sep, Append(cur, Head(s)))

\* s.split(sep): the fields between the separators, empty fields included.
Split(s, sep) == SplitFrom(s, sep, <<>>)

\* A plausible slip: the whole message is taken.
get_error_message_from_exception_whole(exception_str) == exception_str

\* get_error_message_from_exception(exception): the first line of its message.
get_error_message_from_exception(exception_str) == Split(exception_str, "\n")[1]

-----------------------------------------------------------------------------
(* Capability resolver *)

\* selenium.webdriver.common.desired_capabilities.DesiredCapabilities (selenium 3),
\* by class attribute.
SeleniumDesiredCapabilities ==
  [FIREFOX |-> Dict(<<Item(S("browserName"), S("firefox")),
                      Item(S("marionette"), Bool(TRUE)),
                      Item(S("acceptInsecureCerts"), Bool(TRUE))>>),
   CHROME |-> Dict(<<Item(S("browserName"), S("chrome")),
                     Item(S("version"), Str(<<>>)),
                     Item(S("platform"), S("ANY"))>>),
   SAFARI |-> Dict(<<Item(S("browserName"), S("safari")),
                     Item(S("version"), Str(<<>>)),
                     Item(S("platform"), S("MAC"))>>),
   OPERA |-> Dict(<<Item(S("browserName"), S("opera")),
                    Item(S("version"), Str(<<>>)),
                    Item(S("platform"), S("ANY"))>>),
   INTERNETEXPLORER |-> Dict(<<Item(S("browserName"), S("internet explorer")),
                               Item(S("version"), Str(<<>>)),
                               Item(S("platform"), S("WINDOWS"))>>),
   EDGE |-> Dict(<<Item(S("browserName"), S("MicrosoftEdge")),
                   Item(S("version"), Str(<<>>)),
                   Item(S("platform"), S("WINDOWS"))>>),
   PHANTOMJS |-> Dict(<<Item(S("browserName"), S("phantomjs")),
                        Item(S("version"), Str(<<>>)),
                        Item(S("platform"), S("ANY")),
                        Item(S("javascriptEnabled"), Bool(TRUE))>>)]

\* The class attribute each browser name reads.
CapabilitiesAttribute(driver_name) ==
  CASE driver_name = <<"firefox">> -> "FIREFOX"
    [] driver_name = <<"chrome">> -> "CHROME"
    [] driver_name = <<"safari">> -> "SAFARI"
    [] driver_name = <<"opera">> -> "OPERA"
    [] driver_name = <<"iexplore">> -> "INTERNETEXPLORER"
    [] driver_name = <<"edge">> -> "EDGE"
    [] driver_name = <<"phantomjs">> -> "PHANTOMJS"
    [] OTHER -> "no"

\* The dictionary literal of the playwright branch.
PlaywrightCapabilities ==
  Dict(<<Item(S("browserName"), S("playwright")),
         Item(S("version"), S("1.2.6")),
         Item(S("platform"), S("ANY")),
         Item(S("javascriptEnabled"), Bool(TRUE))>>)

MobileNames == {<<"android">>, <<"ios">>, <<"iphone">>}

\* A plausible slip: the class-level dictionary is handed out without .copy(), so
\* whatever is layered on the result is written into DesiredCapabilities itself.
_get_capabilities_from_driver_type_nocopy(driver_name, table) ==
  IF CapabilitiesAttribute(driver_name) # "no"
    THEN [exc |-> "none", caps |-> table[CapabilitiesAttribute(driver_name)],
          shared |-> CapabilitiesAttribute(driver_name)]
  ELSE IF driver_name = <<"playwright">>
    THEN [exc |-> "none", caps |-> PlaywrightCapabilities, shared |-> "no"]
  ELSE IF driver_name \in MobileNames
    THEN [exc |-> "none", caps |-> Dict(<<>>), shared |-> "no"]
  ELSE [exc |-> "ValueError", caps |-> None, shared |-> "no"]

\* _get_capabilities_from_driver_type(driver_name), reading the class-level
\* dictionaries in their current state `table`. caps is the mapping returned;
\* shared names the class attribute whose dictionary object the result is
\* ("no": a new object, which .copy() and the literals always give).
_get_capabilities_from_driver_type(driver_name, table) ==
  IF CapabilitiesAttribute(driver_name) # "no"
    THEN [exc |-> "none", caps |-> table[CapabilitiesAttribute(driver_name)], shared |-> "no"]
  ELSE IF driver_name = <<"playwright">>
    THEN [exc |-> "none", caps |-> PlaywrightCapabilities, shared |-> "no"]
  ELSE IF driver_name \in MobileNames
    THEN [exc |-> "none", caps |-> Dict(<<>>), shared |-> "no"]
  ELSE [exc |-> "ValueError", caps |-> None, shared |-> "no"]

platforms_list ==
  Dict(<<Item(S("xp"), S("XP")),
         Item(S("windows_7"), S("VISTA")),
         Item(S("windows_8"), S("WIN8")),
         Item(S("windows_10"), S("WIN10")),
         Item(S("linux"), S("LINUX")),
         Item(S("android"), S("ANDROID")),
         Item(S("mac"), S("MAC"))>>)

\* A plausible slip: the platform is read at index 2, as if the type string were
\* name-version-platform.
_add_capabilities_from_driver_type_index2(capabilities, driver_type) ==
  LET fields == Split(driver_type, "-")
      c1 == IF Len(fields) >= 2 THEN Put(capabilities, S("version"), Str(fields[2]))
            ELSE capabilities
  IN IF Len(fields) >= 3
       THEN Put(c1, S("platform"), GetOr(platforms_list, Str(fields[3]), Str(fields[3])))
       ELSE c1

\* A plausible slip: one guard for both keys, so that a short type string adds neither.
_add_capabilities_from_driver_type_allornone(capabilities, driver_type) ==
  LET fields == Split(driver_type, "-")
  IN IF Len(fields) >= 4
       THEN Put(Put(capabilities, S("version"), Str(fields[2])),
                S("platform"), GetOr(platforms_list, Str(fields[4]), Str(fields[4])))
       ELSE capabilities

\* _add_capabilities_from_driver_type(capabilities) with driver_type the
\* configured Driver type: split('-')[1] and split('-')[3] are fields[2] and
\* fields[4] here (sequences count from 1); an IndexError skips the key.
_add_capabilities_from_driver_type(capabilities, driver_type) ==
  LET fields == Split(driver_type, "-")
      c1 == IF Len(fields) >= 2 THEN Put(capabilities, S("version"), Str(fields[2]))
            ELSE capabilities
  IN IF Len(fields) >= 4
       THEN Put(c1, S("platform"), GetOr(platforms_list, Str(fields[4]), Str(fields[4])))
       ELSE c1

-----------------------------------------------------------------------------
(* ast.literal_eval on the strings of the model: lists, dictionaries, sets,   *)
(* top-level tuples, integers, quoted strings, True / False / None, names and *)
(* subscripts (both malformed nodes).                                         *)

Punct == {"[", "]", "{", "}", ",", ":"}

\* The chunks that are decimal digits, with their value and their number of digits.
DigitValue == ("1" :> 1) @@ ("2" :> 2) @@ ("42" :> 42) @@ ("76" :> 76)

DigitWidth == ("1" :> 10) @@ ("2" :> 10) @@ ("42" :> 100) @@ ("76" :> 100)

\* The chunks that are quoted string literals, with the string each denotes.
QuotedValue == ("'x'" :> <<"x">>) @@ ("'y'" :> <<"y">>)

IsDigit(c) == c \in DOMAIN DigitValue

IsQuoted(c) == c \in DOMAIN QuotedValue

IsName(c) == c \notin Punct /\ ~IsDigit(c) /\ ~IsQuoted(c)

StartsWith(s, c) == s # <<>> /\ Head(s) = c

EndsWith(s, c) == s # <<>> /\ s[Len(s)] = c

RECURSIVE NumberFrom(_, _)
\* The integer a run of digits denotes, and what follows the run.
NumberFrom(s, acc) ==
  IF s # <<>> /\ IsDigit(Head(s))
    THEN NumberFrom(Tail(s), acc * DigitWidth[Head(s)] + DigitValue[Head(s)])
    ELSE [val |-> acc, rest |-> s]

FirstErr(a, b) == IF a # "none" THEN a ELSE b

\* Lists, dictionaries and sets are unhashable.
HashErr(sem, val) ==
  IF sem = "none" /\ val.t \in {"list", "dict", "set"} THEN "TypeError" ELSE "none"

\* The parser reads the text symbol by symbol and keeps a stack of frames, one
\* for each bracket that is open and one ("top") for the text itself. In a frame:
\*   kind  top | list | brace (a "{" not yet known to open a set or a
\*         dictionary) | set | dict | sub (a subscript)
\*   st    start (nothing read), comma (after a comma), need (after the ":" of
\*         a dictionary), colon (after a ":" of a slice), have / havekey /
\*         haveval (an expression has been read and is held in cur)
\*   cur   the expression read last: k = num | name | quoted | closed (a
\*         bracketed or subscripted expression), its value val, the first
\*         error sem its evaluation raises, the symbols syms of a name
\*   vals, acc  the elements of a list, set or tuple, the items of a dictionary
\*   sem   the first error the evaluation of the elements raises
NoCur == [k |-> "no", val |-> None, sem |-> "none", syms |-> <<>>]

NewFrame(kind) ==
  [kind |-> kind, st |-> "start", vals |-> <<>>, acc |-> Dict(<<>>), sem |-> "none",
   cur |-> NoCur, key |-> NoCur, colons |-> 0, comma |-> FALSE]

SyntaxFail == [syn |-> FALSE, stack |-> <<>>]

HasCur(f) == f.st \in {"have", "havekey", "haveval"}

\* The state of a frame once the expression it expects has been read.
HaveOf(f) ==
  IF f.kind = "dict" THEN (IF f.st = "need" THEN "haveval" ELSE "havekey") ELSE "have"

\* An expression as a value: True, False and None are constants, any other name
\* is a malformed node.
Resolve(cur) ==
  IF cur.k # "name" THEN cur
  ELSE IF cur.syms = <<"True">> THEN [cur EXCEPT !.val = Bool(TRUE)]
  ELSE IF cur.syms = <<"False">> THEN [cur EXCEPT !.val = Bool(FALSE)]
  ELSE IF cur.syms = <<"None">> THEN [cur EXCEPT !.val = None]
  ELSE [cur EXCEPT !.sem = "ValueError"]

\* The expression held becomes the next element: it is evaluated and, in a set,
\* hashed.
CommitElem(f) ==
  LET e == Resolve(f.cur)
  IN [f EXCEPT !.vals = Append(@, e.val),
               !.sem = FirstErr(@, FirstErr(e.sem, IF f.kind = "set" THEN HashErr(e.sem, e.val)
                                                   ELSE "none")),
               !.cur = NoCur]

\* The expression held becomes the value of the key held: key and value are
\* evaluated, then the key is hashed.
CommitPair(f) ==
  LET k == f.key
      v == Resolve(f.cur)
      sem == FirstErr(f.sem, FirstErr(k.sem, FirstErr(v.sem, HashErr(k.sem, k.val))))
  IN [f EXCEPT !.acc = IF sem = "none" THEN Put(@, k.val, v.val) ELSE @,
               !.sem = sem, !.cur = NoCur]

Top(stack) == stack[Len(stack)]

ReplaceTop(stack, f) == [stack EXCEPT ![Len(stack)] = f]

Pop(stack) == SubSeq(stack, 1, Len(stack) - 1)

\* Frame f is closed: its value is the expression its parent holds.
Close(stack, f) ==
  LET val == CASE f.kind = "list" -> List(f.vals)
               [] f.kind = "set" -> SetOf({f.vals[i] : i \in DOMAIN f.vals})
               [] OTHER -> f.acc
      parent == Top(Pop(stack))
  IN [syn |-> TRUE,
      stack |-> ReplaceTop(Pop(stack),
                           [parent EXCEPT !.st = HaveOf(parent),
                                          !.cur = [k |-> "closed", sem |-> f.sem, syms |-> <<>>,
                                                   val |-> IF f.sem = "none" THEN val ELSE None]])]

\* The subscript is closed: the expression the parent holds is subscripted, which
\* is no literal: a malformed node, whatever it is made of.
CloseSubscript(stack) ==
  LET parent == Top(Pop(stack))
  IN [syn |-> TRUE,
      stack |-> ReplaceTop(Pop(stack),
                           [parent EXCEPT !.cur = [k |-> "closed", sem |-> "ValueError",
                                                   syms |-> <<>>, val |-> None]])]

Keep(stack, f) == [syn |-> TRUE, stack |-> ReplaceTop(stack, f)]

\* A digit, a letter or a quoted string: it starts an expression, or goes on
\* with the number or the name that is being read.
StepAtom(stack, f, c) ==
  IF HasCur(f)
    THEN IF f.cur.k = "num" /\ IsDigit(c)
           THEN Keep(stack, [f EXCEPT !.cur.val = Num(@.v * DigitWidth[c] + DigitValue[c])])
         ELSE IF f.cur.k = "name" /\ (IsDigit(c) \/ IsName(c))
           THEN Keep(stack, [f EXCEPT !.cur.syms = Append(@, c)])
         ELSE SyntaxFail
    ELSE Keep(stack,
              [f EXCEPT !.st = HaveOf(f),
                        !.cur = IF IsDigit(c) THEN [NoCur EXCEPT !.k = "num", !.val = Num(DigitValue[c])]
                                ELSE IF IsQuoted(c)
                                  THEN [NoCur EXCEPT !.k = "quoted", !.val = Str(QuotedValue[c])]
                                ELSE [NoCur EXCEPT !.k = "name", !.syms = <<c>>]])

StepClose(stack, f, c) ==
  IF c = "]" /\ f.kind = "list" /\ f.st \in {"start", "comma"} THEN Close(stack, f)
  ELSE IF c = "]" /\ f.kind = "list" /\ f.st = "have" THEN Close(stack, CommitElem(f))
  ELSE IF c = "]" /\ f.kind = "sub" /\ f.st \in {"have", "colon", "comma"} THEN CloseSubscript(stack)
  ELSE IF c = "}" /\ f.kind = "brace" /\ f.st = "start" THEN Close(stack, f)
  ELSE IF c = "}" /\ f.kind \in {"brace", "set"} /\ f.st = "have"
    THEN Close(stack, CommitElem([f EXCEPT !.kind = "set"]))
  ELSE IF c = "}" /\ f.kind \in {"set", "dict"} /\ f.st = "comma" THEN Close(stack, f)
  ELSE IF c = "}" /\ f.kind = "dict" /\ f.st = "haveval" THEN Close(stack, CommitPair(f))
  ELSE SyntaxFail

StepComma(stack, f) ==
  IF f.kind \in {"list", "top", "brace", "set"} /\ f.st = "have"
    THEN Keep(stack, [CommitElem([f EXCEPT !.kind = IF @ = "brace" THEN "set" ELSE @])
                        EXCEPT !.st = "comma", !.comma = TRUE])
  ELSE IF f.kind = "dict" /\ f.st = "haveval"
    THEN Keep(stack, [CommitPair(f) EXCEPT !.st = "comma"])
  ELSE IF f.kind = "sub" /\ f.st \in {"have", "colon"}
    THEN Keep(stack, [f EXCEPT !.st = "comma", !.colons = 0, !.cur = NoCur])
  ELSE SyntaxFail

StepColon(stack, f) ==
  IF (f.kind = "brace" /\ f.st = "have") \/ (f.kind = "dict" /\ f.st = "havekey")
    THEN Keep(stack, [f EXCEPT !.kind = "dict", !.st = "need", !.key = Resolve(f.cur),
                               !.cur = NoCur])
  ELSE IF f.kind = "sub" /\ f.colons < 2
    THEN Keep(stack, [f EXCEPT !.st = "colon", !.colons = @ + 1, !.cur = NoCur])
  ELSE SyntaxFail

\* One symbol read.
Step(state, c) ==
  LET stack == state.stack
      f == Top(stack)
  IN IF c = "[" THEN [syn |-> TRUE,
                      stack |-> Append(stack, NewFrame(IF HasCur(f) THEN "sub" ELSE "list"))]
     ELSE IF c = "{" THEN IF HasCur(f) THEN SyntaxFail
                          ELSE [syn |-> TRUE, stack |-> Append(stack, NewFrame("brace"))]
     ELSE IF c \in {"]", "}"} THEN StepClose(stack, f, c)
     ELSE IF c = "," THEN StepComma(stack, f)
     ELSE IF c = ":" THEN StepColon(stack, f)
     ELSE StepAtom(stack, f, c)

RECURSIVE Read(_, _)
Read(state, s) ==
  IF s = <<>> \/ ~state.syn THEN state ELSE Read(Step(state, Head(s)), Tail(s))

\* What the text read is worth: a SyntaxError when it is no expression, the first
\* ValueError (malformed node) or TypeError (unhashable) of its evaluation, the
\* value otherwise; expressions separated by commas are a tuple.
Evaluated(end) ==
  LET top == IF end.stack[1].st = "have" THEN CommitElem(end.stack[1]) ELSE end.stack[1]
  IN IF ~end.syn \/ Len(end.stack) # 1 \/ end.stack[1].st \notin {"have", "comma"}
       THEN [exc |-> "SyntaxError", val |-> None]
     ELSE IF top.sem # "none" THEN [exc |-> top.sem, val |-> None]
     ELSE IF Len(top.vals) = 1 /\ ~top.comma THEN [exc |-> "none", val |-> top.vals[1]]
     ELSE [exc |-> "none", val |-> Tuple(top.vals)]

\* ast.literal_eval(s) for a string s
literal_eval(s) == Evaluated(Read([syn |-> TRUE, stack |-> <<NewFrame("top")>>], s))

-----------------------------------------------------------------------------
(* Property type coercion *)

\* str(value).startswith(open) and str(value).endswith(close): a string is its own
\* text, a dictionary prints as {...}, a list as [...], a set as {...} unless it is
\* empty (set()); no other value prints with these brackets.
StrBracketed(value, open, close) ==
  CASE value.t = "str" -> StartsWith(value.v, open) /\ EndsWith(value.v, close)
    [] value.t = "dict" -> open = "{" /\ close = "}"
    [] value.t = "list" -> open = "[" /\ close = "]"
    [] value.t = "set" -> open = "{" /\ close = "}" /\ value.v # {}
    [] OTHER -> FALSE

\* int(value): the digits of a string denote it, a boolean is 1 or 0, an integer is
\* itself; a string that is no integer raises ValueError, any other value TypeError.
int(value) ==
  CASE value.t = "str" ->
         IF value.v # <<>> /\ \A i \in DOMAIN value.v : IsDigit(value.v[i])
           THEN [exc |-> "none", val |-> Num(NumberFrom(value.v, 0).val)]
           ELSE [exc |-> "ValueError", val |-> None]
    [] value.t = "int" -> [exc |-> "none", val |-> value]
    [] value.t = "bool" -> [exc |-> "none", val |-> Num(IF value.v THEN 1 ELSE 0)]
    [] OTHER -> [exc |-> "TypeError", val |-> None]

\* A plausible slip: the literal is parsed inside the try, so that a malformed
\* literal is kept as a string like a failed integer parse.
_convert_property_type_lenient(value) ==
  IF value \in {S("true"), S("True")} THEN [exc |-> "none", val |-> Bool(TRUE)]
  ELSE IF value \in {S("false"), S("False")} THEN [exc |-> "none", val |-> Bool(FALSE)]
  ELSE IF StrBracketed(value, "{", "}") \/ StrBracketed(value, "[", "]")
    THEN IF value.t = "str" /\ literal_eval(value.v).exc = "none" THEN literal_eval(value.v)
         ELSE [exc |-> "none", val |-> value]
  ELSE IF int(value).exc = "ValueError" THEN [exc |-> "none", val |-> value]
  ELSE int(value)

\* A plausible slip: the integer parse is tried before the literal test and is
\* handed every value, so that a boolean is no longer converted.
_convert_property_type_typed(value) ==
  IF value \in {S("true"), S("True")} THEN [exc |-> "none", val |-> Bool(TRUE)]
  ELSE IF value \in {S("false"), S("False")} THEN [exc |-> "none", val |-> Bool(FALSE)]
  ELSE IF value.t # "str" THEN [exc |-> "none", val |-> value]
  ELSE IF StrBracketed(value, "{", "}") \/ StrBracketed(value, "[", "]")
    THEN literal_eval(value.v)
  ELSE IF int(value).exc = "ValueError" THEN [exc |-> "none", val |-> value]
  ELSE int(value)

\* _convert_property_type(value). literal_eval is handed the value itself: what is
\* no string (and no syntax tree) is a malformed node, a ValueError.
_convert_property_type(value) ==
  IF value \in {S("true"), S("True")} THEN [exc |-> "none", val |-> Bool(TRUE)]
  ELSE IF value \in {S("false"), S("False")} THEN [exc |-> "none", val |-> Bool(FALSE)]
  ELSE IF StrBracketed(value, "{", "}") \/ StrBracketed(value, "[", "]")
    THEN IF value.t = "str" THEN literal_eval(value.v)
         ELSE [exc |-> "ValueError", val |-> None]
  ELSE IF int(value).exc = "ValueError" THEN [exc |-> "none", val |-> value]
  ELSE int(value)

-----------------------------------------------------------------------------
(* Dictionary merge *)

\* initial_key=None
NoKey == [t |-> "none", v |-> 0]

\* The 1-based position list[key] names, 0 when the key is out of range.
ListIndex(lst, key) ==
  LET n == IF key.t = "bool" THEN (IF key.v THEN 1 ELSE 0) ELSE key.v
      pos == IF n >= 0 THEN n + 1 ELSE Len(lst.v) + n + 1
  IN IF pos \in DOMAIN lst.v THEN pos ELSE 0

\* initial[key] = value on whatever object initial is: a dictionary takes the
\* item, a list takes it at an integer index in range, nothing else supports item
\* assignment.
SetItem(initial, key, value) ==
  CASE initial.t = "dict" -> [exc |-> "none", val |-> Put(initial, key, value)]
    [] initial.t = "list" ->
         IF key.t \notin {"int", "bool"} THEN [exc |-> "TypeError", val |-> initial]
         ELSE IF ListIndex(initial, key) = 0 THEN [exc |-> "IndexError", val |-> initial]
         ELSE [exc |-> "none",
               val |-> List([i \in DOMAIN initial.v |->
                               IF i = ListIndex(initial, key) THEN value ELSE initial.v[i]])]
    [] OTHER -> [exc |-> "TypeError", val |-> initial]

RECURSIVE UpdateItems(_, _, _)
\* The loop of _update_dict over the items of update, in their order. val is the
\* object initial as the loop leaves it: the merge is done in place, so what was
\* merged before an exception stays merged, also inside a nested dictionary that
\* initial holds. A nested dictionary is merged by the recursive call
\* self._update_dict(initial.get(key, {}), value), which passes no initial_key.
UpdateItems(initial, items, initial_key) ==
  IF items = <<>> THEN [exc |-> "none", val |-> initial]
  ELSE LET key == Head(items).k
           value == Head(items).v
       IN IF ~(initial_key = NoKey \/ key = initial_key)
            THEN UpdateItems(initial, Tail(items), initial_key)
          ELSE IF IsDict(value)
            THEN IF ~IsDict(initial)
                   THEN [exc |-> "AttributeError", val |-> initial]   \* initial.get
                 ELSE LET sub == UpdateItems(GetOr(initial, key, Dict(<<>>)), value.v, NoKey)
                      IN IF sub.exc # "none"
                           THEN [exc |-> sub.exc,
                                 val |-> IF HasKey(initial, key) THEN Put(initial, key, sub.val)
                                         ELSE initial]
                           ELSE UpdateItems(Put(initial, key, sub.val), Tail(items), initial_key)
          ELSE LET set == SetItem(initial, key, value)
               IN IF set.exc # "none" THEN set
                  ELSE UpdateItems(set.val, Tail(items), initial_key)

\* A plausible slip: initial_key is not looked at, every key of update is merged.
_update_dict_everykey(initial, update, initial_key) ==
  UpdateItems(initial, update.v, NoKey)

\* _update_dict(initial, update, initial_key)
_update_dict(initial, update, initial_key) ==
  UpdateItems(initial, update.v, initial_key)

-----------------------------------------------------------------------------
(* Capabilities from a configuration section *)

RECURSIVE AddProperties(_, _, _, _), AddProperty(_, _, _, _, _)
\* The loop of _add_capabilities_from_properties over the items of the section:
\* the value of the key `unconverted` is taken as it is, every other value is
\* converted. updates are the dictionaries {cap: cap_value} handed to
\* _update_dict so far.
AddProperties(capabilities, items, updates, unconverted) ==
  IF items = <<>> THEN [exc |-> "none", caps |-> capabilities, updates |-> updates]
  ELSE AddProperty(capabilities, items, updates, unconverted,
                   IF Head(items).k = unconverted THEN [exc |-> "none", val |-> Head(items).v]
                   ELSE _convert_property_type(Head(items).v))

\* One turn of the loop, cap_value being what the conversion gave:
\* self._update_dict(capabilities, {cap: cap_value}, initial_key=cap)
AddProperty(capabilities, items, updates, unconverted, cap_value) ==
  LET cap == Head(items).k
      upd == Dict(<<Item(cap, cap_value.val)>>)
      merged == _update_dict(capabilities, upd, cap)
  IN IF cap_value.exc # "none"
       THEN [exc |-> cap_value.exc, caps |-> capabilities, updates |-> updates]
     ELSE IF merged.exc # "none"
       THEN [exc |-> merged.exc, caps |-> merged.val, updates |-> Append(updates, upd)]
     ELSE AddProperties(merged.val, Tail(items), Append(updates, upd), unconverted)

\* A plausible slip: the 'version' exception is left out, every value is converted.
_add_capabilities_from_properties_uniform(capabilities, section) ==
  IF section = None THEN [exc |-> "none", caps |-> capabilities, updates |-> <<>>]
  ELSE AddProperties(capabilities, section.v, <<>>, NoKey)

\* _add_capabilities_from_properties(capabilities, section) with section the items
\* of the configuration section (None: the section does not exist, NoSectionError).
_add_capabilities_from_properties(capabilities, section) ==
  IF section = None THEN [exc |-> "none", caps |-> capabilities, updates |-> <<>>]
  ELSE AddProperties(capabilities, section.v, <<>>, S("version"))

-----------------------------------------------------------------------------
(* Chrome options *)

\* A ChromeOptions object is its argument list, its binary location and its
\* dictionary of experimental options; exc is the exception that stopped the
\* method that was filling it, after which no statement touches it.

RECURSIVE ConvertItems(_, _), ConvertItem(_, _, _)
\* option_value[key] = self._convert_property_type(value) for each item of a section.
ConvertItems(items, option_value) ==
  IF items = <<>> THEN [exc |-> "none", val |-> option_value]
  ELSE ConvertItem(items, option_value, _convert_property_type(Head(items).v))

\* One turn of the loop, converted being what the conversion gave.
ConvertItem(items, option_value, converted) ==
  IF converted.exc # "none" THEN [exc |-> converted.exc, val |-> option_value]
  ELSE ConvertItems(Tail(items), Put(option_value, Head(items).k, converted.val))

\* if len(option_value) > 0: options.add_experimental_option(option_name, option_value)
AddOptionValue(options, option_name, option_value) ==
  IF option_value.exc # "none" THEN [options EXCEPT !.exc = option_value.exc]
  ELSE IF Len(option_value.val.v) > 0
    THEN [options EXCEPT !.experimental_options = Put(@, S(option_name), option_value.val)]
  ELSE options

\* _add_chrome_options(options, option_name) with section the items of the
\* configuration section of that option (None: no such section, NoSectionError).
_add_chrome_options(options, option_name, section) ==
  IF options.exc # "none" \/ section = None THEN options
  ELSE AddOptionValue(options, option_name, ConvertItems(section.v, Dict(<<>>)))

RECURSIVE ArgumentItems(_, _), AddArgument(_, _, _)
\* The loop of _add_chrome_arguments: the value is '=' and the text when there is
\* one, and is converted.
ArgumentItems(items, options) ==
  IF items = <<>> THEN options
  ELSE AddArgument(items, options,
                   _convert_property_type(IF Head(items).v.v # <<>>
                                            THEN Str(<<"=">> \o Head(items).v.v)
                                          ELSE Str(<<>>)))

\* options.add_argument('{}{}'.format(pref, converted))
AddArgument(items, options, converted) ==
  IF converted.exc # "none" THEN [options EXCEPT !.exc = converted.exc]
  ELSE ArgumentItems(Tail(items),
                     [options EXCEPT !.arguments = Append(@, Str(Head(items).k.v \o converted.val.v))])

\* _add_chrome_arguments(options) with section the items of ChromeArguments
_add_chrome_arguments(options, section) ==
  IF options.exc # "none" \/ section = None THEN options
  ELSE ArgumentItems(section.v, options)

\* webdriver.ChromeOptions() with the headless arguments and the binary location
ChromeOptions(cfg) ==
  [exc |-> "none",
   arguments |-> IF cfg.headless
                   THEN IF cfg.os_name = "nt" THEN <<S("--headless"), S("--disable-gpu")>>
                        ELSE <<S("--headless")>>
                 ELSE <<>>,
   binary_location |-> cfg.Chrome_binary,
   experimental_options |-> Dict(<<>>)]

\* _create_chrome_options()
_create_chrome_options(cfg) ==
  _add_chrome_arguments(
    _add_chrome_options(
      _add_chrome_options(ChromeOptions(cfg), "prefs", cfg.ChromePreferences),
      "mobileEmulation", cfg.ChromeMobileEmulation),
    cfg.ChromeArguments)

\* selenium's ChromeOptions.to_capabilities(): the chrome base capabilities with
\* the options under ChromeOptions.KEY, the name of which depends on the
\* selenium release.
to_capabilities(options, KEY) ==
  LET o1 == Put(options.experimental_options, S("extensions"), List(<<>>))
      o2 == IF options.binary_location # None THEN Put(o1, S("binary"), options.binary_location)
            ELSE o1
      o3 == Put(o2, S("args"), List(options.arguments))
  IN Put(SeleniumDesiredCapabilities.CHROME, S(KEY), o3)

\* A plausible slip: the chrome capabilities are merged without initial_key.
MergeChromeCapabilities_all(capabilities, options, KEY) ==
  IF options.exc # "none" THEN [exc |-> options.exc, val |-> capabilities]
  ELSE _update_dict(capabilities, to_capabilities(options, KEY), NoKey)

_add_chrome_options_to_capabilities_all(capabilities, cfg) ==
  MergeChromeCapabilities_all(capabilities, _create_chrome_options(cfg), cfg.options_KEY)

\* The body of _add_chrome_options_to_capabilities once the options are created:
\* the options entry of their capabilities, under the key it is found at, is
\* merged into capabilities.
MergeChromeCapabilities(capabilities, options, KEY) ==
  LET chrome_capabilities == to_capabilities(options, KEY)
      options_key == IF HasKey(chrome_capabilities, S("goog:chromeOptions"))
                       THEN S("goog:chromeOptions")
                     ELSE IF HasKey(chrome_capabilities, S("chromeOptions"))
                       THEN S("chromeOptions")
                     ELSE None
  IN IF options.exc # "none" THEN [exc |-> options.exc, val |-> capabilities]
     ELSE IF options_key # None THEN _update_dict(capabilities, chrome_capabilities, options_key)
     ELSE [exc |-> "none", val |-> capabilities]

\* _add_chrome_options_to_capabilities(capabilities)
_add_chrome_options_to_capabilities(capabilities, cfg) ==
  MergeChromeCapabilities(capabilities, _create_chrome_options(cfg), cfg.options_KEY)

-----------------------------------------------------------------------------
(* Driver construction. The configuration cfg is a record of what the code    *)
(* reads: type (Driver type), enabled (Server enabled), host and port         *)
(* (Server), driver_path (the <browser>_driver_path key of Driver), headless, *)
(* the sections Capabilities, AppiumCapabilities, FirefoxPreferences,         *)
(* ChromePreferences, ChromeMobileEmulation, ChromeArguments, Chrome_binary,  *)
(* and with them os_name (os.name) and options_KEY (ChromeOptions.KEY).       *)

\* utils.get_driver_name(): the Driver type up to its first hyphen.
get_driver_name(cfg) == Split(cfg.type, "-")[1]

\* utils.get_server_url(): the url of the configured Server host and port.
get_server_url(cfg) == <<"http://">> \o cfg.host \o <<":">> \o cfg.port

\* One driver construction as far as it has come: the exception raised (exc), what
\* _get_capabilities_from_driver_type returned (base; shared names the class
\* attribute whose dictionary object it is), the capabilities object as it is
\* now (caps), the session request issued to the remote endpoint (session), the
\* local driver constructed (local), the driver handle (handle) and the
\* configuration (cfg), with the number of session requests issued (requests) and
\* the capabilities the local setup routine was called with (received). No
\* statement runs once an exception is raised.
Construction(cfg) ==
  [exc |-> "none", base |-> None, shared |-> "no", caps |-> None, session |-> None,
   requests |-> 0, received |-> None, local |-> None, handle |-> None, cfg |-> cfg]

\* capabilities = self._get_capabilities_from_driver_type(driver_name)
GetCapabilities(c, got) ==
  [c EXCEPT !.exc = got.exc, !.base = got.caps, !.shared = got.shared, !.caps = got.caps]

\* self._add_capabilities_from_driver_type(capabilities)
AddVersionAndPlatform(c) ==
  IF c.exc # "none" THEN c
  ELSE [c EXCEPT !.caps = _add_capabilities_from_driver_type(@, c.cfg.type)]

\* _create_firefox_profile(): the preferences set on the profile, each converted.
_create_firefox_profile(cfg) ==
  IF cfg.FirefoxPreferences = None THEN [exc |-> "none", val |-> Dict(<<>>)]
  ELSE ConvertItems(cfg.FirefoxPreferences.v, Dict(<<>>))

\* capabilities['firefox_profile'] = self._create_firefox_profile().encoded
SetFirefoxProfile(c, profile) ==
  IF profile.exc # "none" THEN [c EXCEPT !.exc = profile.exc]
  ELSE [c EXCEPT !.caps = Put(@, S("firefox_profile"), [t |-> "profile", v |-> profile.val.v])]

\* The opera flags and the firefox profile of the remote path.
AddBrowserCapabilities(c) ==
  IF c.exc # "none" THEN c
  ELSE IF get_driver_name(c.cfg) = <<"opera">>
    THEN [c EXCEPT !.caps = Put(Put(@, S("opera.autostart"), Bool(TRUE)),
                                S("opera.arguments"), S("-fullscreen"))]
  ELSE IF get_driver_name(c.cfg) = <<"firefox">>
    THEN SetFirefoxProfile(c, _create_firefox_profile(c.cfg))
  ELSE c

\* The capabilities object after a call that merges into it, and the exception
\* the call raised.
Merged(c, exc, capabilities) == [c EXCEPT !.exc = exc, !.caps = capabilities]

PropertiesMerged(c, added) == Merged(c, added.exc, added.caps)

\* self._add_capabilities_from_properties(capabilities, section)
AddCapabilities(c, section) ==
  IF c.exc # "none" THEN c
  ELSE PropertiesMerged(c, _add_capabilities_from_properties(c.caps, section))

OptionsMerged(c, added) == Merged(c, added.exc, added.val)

\* self._add_chrome_options_to_capabilities(capabilities)
AddChromeOptions(c) ==
  IF c.exc # "none" THEN c
  ELSE OptionsMerged(c, _add_chrome_options_to_capabilities(c.caps, c.cfg))

\* appiumdriver.Remote or webdriver.Remote(command_executor=server_url,
\* desired_capabilities=capabilities): the session request is issued, and the
\* endpoint gives a session or the client raises.
Remote(c, client, backend_ok) ==
  IF c.exc # "none" THEN c
  ELSE [c EXCEPT !.session = [client |-> client, caps |-> c.caps,
                              url |-> get_server_url(c.cfg) \o <<"/wd/hub">>],
                 !.requests = @ + 1,
                 !.exc = IF backend_ok THEN "none" ELSE "WebDriverException",
                 !.handle = IF backend_ok THEN S(client) ELSE None]

\* A plausible slip: the mobile names are not told apart and every session is
\* requested through the Selenium client.
RemoteSession_selenium(c, backend_ok) ==
  IF get_driver_name(c.cfg) = <<"chrome">>
    THEN Remote(AddChromeOptions(c), "webdriver.Remote", backend_ok)
  ELSE Remote(AddCapabilities(c, c.cfg.AppiumCapabilities), "webdriver.Remote", backend_ok)

\* The steps of _create_remote_driver after the Capabilities section.
RemoteSession(c, backend_ok) ==
  IF get_driver_name(c.cfg) \in MobileNames
    THEN Remote(AddCapabilities(c, c.cfg.AppiumCapabilities), "appiumdriver.Remote", backend_ok)
  ELSE IF get_driver_name(c.cfg) = <<"chrome">>
    THEN Remote(AddChromeOptions(c), "webdriver.Remote", backend_ok)
  ELSE Remote(c, "webdriver.Remote", backend_ok)

\* A plausible slip: the Capabilities section is layered before the version and
\* the platform of the type string.
_create_remote_driver_typelast(cfg, table, backend_ok) ==
  RemoteSession(
    AddBrowserCapabilities(
      AddVersionAndPlatform(
        AddCapabilities(
          GetCapabilities(Construction(cfg),
                          _get_capabilities_from_driver_type(get_driver_name(cfg), table)),
          cfg.Capabilities))),
    backend_ok)

\* _create_remote_driver(), the class-level dictionaries being `table`; backend_ok
\* is whether the endpoint gives the session.
_create_remote_driver(cfg, table, backend_ok) ==
  RemoteSession(
    AddCapabilities(
      AddBrowserCapabilities(
        AddVersionAndPlatform(
          GetCapabilities(Construction(cfg),
                          _get_capabilities_from_driver_type(get_driver_name(cfg), table)))),
      cfg.Capabilities),
    backend_ok)

\* A plausible slip: the session is requested from the configured Server host
\* and port.
_setup_appium_configured(cfg, table, backend_ok) ==
  _create_remote_driver(cfg, table, backend_ok)

\* _setup_appium()
_setup_appium(cfg, table, backend_ok) ==
  _create_remote_driver([cfg EXCEPT !.host = <<"127.0.0.1">>, !.port = <<"4723">>],
                        table, backend_ok)

\* The keys of driver_setup with the driver class each setup routine constructs.
driver_setup ==
  [firefox |-> "webdriver.Firefox", chrome |-> "webdriver.Chrome", safari |-> "webdriver.Safari",
   opera |-> "webdriver.Opera", iexplore |-> "webdriver.Ie", edge |-> "webdriver.Edge",
   phantomjs |-> "webdriver.PhantomJS", playwright |-> "playwright.Page"]

\* The driver class is constructed with the capabilities, and raises when the
\* browser cannot be launched.
LocalDriver(c, backend_ok) ==
  IF c.exc # "none" THEN c
  ELSE [c EXCEPT !.local = [setup |-> driver_setup[get_driver_name(c.cfg)[1]], caps |-> c.caps],
                 !.exc = IF backend_ok THEN "none" ELSE "WebDriverException",
                 !.handle = IF backend_ok THEN S(driver_setup[get_driver_name(c.cfg)[1]])
                            ELSE None]

\* self._create_firefox_profile() as an argument of webdriver.Firefox
WithFirefoxProfile(c, profile) ==
  IF profile.exc # "none" THEN [c EXCEPT !.exc = profile.exc] ELSE c

\* driver_setup_method(capabilities): _setup_firefox, _setup_chrome, _setup_safari,
\* _setup_opera, _setup_explorer, _setup_edge, _setup_phantomjs, _setup_playwright.
\* The setup routines that read a driver path from Driver raise NoOptionError
\* when the key is missing (firefox reads it when capabilities has a true
\* 'marionette').
driver_setup_method(c, backend_ok) ==
  IF c.exc # "none" THEN c
  ELSE IF /\ c.cfg.driver_path = None
          /\ \/ get_driver_name(c.cfg)[1] \in {"chrome", "opera", "iexplore", "edge", "phantomjs"}
             \/ /\ get_driver_name(c.cfg) = <<"firefox">>
                /\ GetOr(c.caps, S("marionette"), None) \notin {None, Bool(FALSE), Num(0), Str(<<>>)}
    THEN [c EXCEPT !.exc = "NoOptionError"]
  ELSE IF get_driver_name(c.cfg) = <<"chrome">> THEN LocalDriver(AddChromeOptions(c), backend_ok)
  ELSE IF get_driver_name(c.cfg) = <<"firefox">>
    THEN LocalDriver(WithFirefoxProfile(c, _create_firefox_profile(c.cfg)), backend_ok)
  ELSE LocalDriver(c, backend_ok)

\* driver_setup_method(capabilities) is called: the capabilities object it is given.
Received(c) == IF c.exc # "none" THEN c ELSE [c EXCEPT !.received = c.caps]

\* A plausible slip: the local path resolves the capabilities as the remote path
\* does, with the version and the platform of the type string.
_create_local_driver_typed(cfg, table, backend_ok) ==
  IF get_driver_name(cfg) \in MobileNames THEN _setup_appium(cfg, table, backend_ok)
  ELSE IF Len(get_driver_name(cfg)) # 1 \/ get_driver_name(cfg)[1] \notin DOMAIN driver_setup
    THEN [Construction(cfg) EXCEPT !.exc = "ValueError"]
  ELSE driver_setup_method(
         Received(
           AddCapabilities(
             AddVersionAndPlatform(
               GetCapabilities(Construction(cfg),
                               _get_capabilities_from_driver_type(get_driver_name(cfg), table))),
             cfg.Capabilities)),
         backend_ok)

\* _create_local_driver()
_create_local_driver(cfg, table, backend_ok) ==
  IF get_driver_name(cfg) \in MobileNames THEN _setup_appium(cfg, table, backend_ok)
  ELSE IF Len(get_driver_name(cfg)) # 1 \/ get_driver_name(cfg)[1] \notin DOMAIN driver_setup
    THEN [Construction(cfg) EXCEPT !.exc = "ValueError"]
  ELSE driver_setup_method(
         Received(
           AddCapabilities(
             GetCapabilities(Construction(cfg),
                             _get_capabilities_from_driver_type(get_driver_name(cfg), table)),
             cfg.Capabilities)),
         backend_ok)

\* The body of the try of create_driver.
create_driver(cfg, table, backend_ok) ==
  IF cfg.enabled THEN _create_remote_driver(cfg, table, backend_ok)
  ELSE _create_local_driver(cfg, table, backend_ok)

-----------------------------------------------------------------------------
(* The playwright page handle. A page is a record of its attributes (attrs),    *)
(* each bound to an operation (what calling it does) or to a value, and of the  *)
(* state of its browsing context: closed, url, cookies (the sites that have set *)
(* one, in order), default_timeout and the screenshot files written.            *)

Operation(does) == [kind |-> "operation", does |-> does]

Value(v) == [kind |-> "value", v |-> v]

\* Number of arguments each operation takes.
Parameters ==
  [window_position |-> 2, maximize_window |-> 0, default_time |-> 1, get_page_screenshot |-> 1,
   goto |-> 1, evaluate |-> 1, reload |-> 0, clear_cookies |-> 0, close |-> 0]

\* page.context.cookies(): the cookies of the browsing context, as a list.
cookies(p) == List([i \in 1..Len(p.cookies) |-> S(p.cookies[i])])

\* browser.new_page(): the page of a new browsing context, with the attributes of
\* a playwright Page that the code reads.
new_page ==
  [attrs |-> [goto |-> Operation("goto"), evaluate |-> Operation("evaluate"),
              reload |-> Operation("reload"), close |-> Operation("close")],
   closed |-> FALSE, url |-> None, cookies |-> <<>>, default_timeout |-> None, screenshots |-> {}]

\* page.<name> = <binding>
SetAttr(p, name, binding) ==
  [p EXCEPT !.attrs = [n \in DOMAIN p.attrs \cup {name} |->
                         IF n = name THEN binding ELSE p.attrs[n]]]

\* The assignments of _setup_playwright in order, each with what its right-hand
\* side is: a function defined there (new), an attribute of the page read at
\* that moment (attr), the list page.context.cookies() returns at that moment
\* (cookies).
redirects ==
  <<[name |-> "set_window_position", rhs |-> "new", of |-> "window_position"],
    [name |-> "set_window_size", rhs |-> "new", of |-> "window_position"],
    [name |-> "maximize_window", rhs |-> "new", of |-> "maximize_window"],
    [name |-> "get_window_size", rhs |-> "attr", of |-> "maximize_window"],
    [name |-> "get", rhs |-> "attr", of |-> "goto"],
    [name |-> "execute_script", rhs |-> "attr", of |-> "evaluate"],
    [name |-> "refresh", rhs |-> "attr", of |-> "reload"],
    [name |-> "get_cookies", rhs |-> "cookies", of |-> "context"],
    [name |-> "delete_all_cookies", rhs |-> "new", of |-> "clear_cookies"],
    [name |-> "implicitly_wait", rhs |-> "new", of |-> "default_time"],
    [name |-> "close", rhs |-> "attr", of |-> "maximize_window"],
    [name |-> "get_screenshot_as_file", rhs |-> "new", of |-> "get_page_screenshot"]>>

\* The right-hand side of one assignment, evaluated on the page as it is.
Rhs(p, stmt) ==
  IF stmt.rhs = "new" THEN Operation(stmt.of)
  ELSE IF stmt.rhs = "attr" THEN p.attrs[stmt.of]
  ELSE Value(cookies(p))

RECURSIVE Redirect(_, _)
\* The assignments applied to the page one after the other.
Redirect(p, stmts) ==
  IF stmts = <<>> THEN p
  ELSE Redirect(SetAttr(p, Head(stmts).name, Rhs(p, Head(stmts))), Tail(stmts))

\* The attributes set before the selenium methods are redirected.
WithLogging(p) ==
  [p EXCEPT !.attrs = [n \in DOMAIN p.attrs
                              \cup {"log_types", "get_log", "logger", "desired_capabilities",
                                    "session_id"} |->
                         IF n = "log_types" THEN Value(List(<<S("Server"), S("Client")>>))
                         ELSE IF n \in {"get_log", "logger"} THEN Operation("getLogger")
                         ELSE IF n = "desired_capabilities"
                           THEN Value(Dict(<<Item(S("platform"), S("playwright")),
                                             Item(S("browser"), S("chromium"))>>))
                         ELSE IF n = "session_id" THEN Value(S("generate_fake_sessionid(40)"))
                         ELSE p.attrs[n]]]

\* _setup_playwright(capabilities): the page returned. The capabilities are not used.
_setup_playwright(capabilities) == Redirect(WithLogging(new_page), redirects)

\* What a call returned or raised, and the page after it.
Returned(p, val) == [exc |-> "none", val |-> val, page |-> p]

Failed(p, exc) == [exc |-> exc, val |-> None, page |-> p]

\* window_position(width, height)
window_position(p, width, height) ==
  Returned(p, Dict(<<Item(S("width"), Num(width)), Item(S("height"), Num(height))>>))

\* The operation `does` called with args on page p: the functions defined in
\* _setup_playwright, and goto, evaluate, reload and close of the page and
\* clear_cookies of its context, which raise once the page is closed.
Invoke(p, does, args) ==
  IF Len(args) # Parameters[does] THEN Failed(p, "TypeError")
  ELSE IF does = "window_position" THEN window_position(p, args[1], args[2])
  ELSE IF does = "maximize_window" THEN window_position(p, 1500, 1500)
  ELSE IF p.closed THEN Failed(p, "Error")
  ELSE IF does = "default_time"
    THEN Returned([p EXCEPT !.default_timeout = [t |-> "float", v |-> args[1]]], None)
  ELSE IF does = "get_page_screenshot"
    THEN Returned([p EXCEPT !.screenshots = @ \cup {args[1]}], S("bytes"))
  ELSE IF does = "goto"
    THEN Returned([p EXCEPT !.url = S(args[1]),
                            !.cookies = IF \E i \in 1..Len(@) : @[i] = args[1] THEN @
                                        ELSE Append(@, args[1])],
                  S("Response"))
  ELSE IF does = "evaluate" THEN Returned(p, S("result"))
  ELSE IF does = "reload" THEN Returned(p, S("Response"))
  ELSE IF does = "clear_cookies" THEN Returned([p EXCEPT !.cookies = <<>>], None)
  ELSE Returned([p EXCEPT !.closed = TRUE], None)

\* page.<name>(*args): the attribute is looked up and what it is bound to is called.
CallAttr(p, name, args) ==
  IF name \notin DOMAIN p.attrs THEN Failed(p, "AttributeError")
  ELSE IF p.attrs[name].kind = "value" THEN Failed(p, "TypeError")
  ELSE Invoke(p, p.attrs[name].does, args)

-----------------------------------------------------------------------------
(* Jira reporting (toolium/jira.py). The globals of the module are the fields   *)
(* of one record; a list is an object of the heap `lists`, named by its index,  *)
(* so that two names of one list see each other's changes. The Jira section    *)
(* of the configuration is a record of its keys, None for a key that is absent. *)

\* The globals as the module is loaded.
JiraGlobals ==
  [jira_tests_status |-> Dict(<<>>), attachments |-> 1, lists |-> << <<>> >>,
   enabled |-> None, jiratoken |-> None, project_id |-> Num(0), project_key |-> Str(<<>>),
   project_name |-> Str(<<>>), execution_url |-> Str(<<>>), summary_prefix |-> None,
   labels |-> None, comments |-> None, fix_version |-> None, build |-> None,
   only_if_changes |-> None]

\* The list object of the heap with index i.
Ref(i) == [t |-> "ref", v |-> i]

\* bool(value)
Truthy(value) ==
  value \notin {None, Bool(FALSE), Num(0), Str(<<>>), List(<<>>), Dict(<<>>)}

\* config.get_optional(section, option): the value, None when it is absent.
get_optional(section, option) == section[option]

\* config.getboolean_optional(section, option): the boolean, False when it is absent.
getboolean_optional(section, option) ==
  IF section[option] = None THEN Bool(FALSE)
  ELSE Bool(section[option] \in {S("true"), S("True"), S("yes"), S("on"), S("1")})

\* One statement `global = int(config.get_optional('Jira', option))`.
AssignInt(m, name, converted) ==
  IF m.exc # "none" THEN m
  ELSE IF converted.exc # "none" THEN [m EXCEPT !.exc = converted.exc]
  ELSE [m EXCEPT !.g = [@ EXCEPT ![name] = converted.val]]

\* One statement `global = value`.
Assign(m, name, value) ==
  IF m.exc # "none" THEN m ELSE [m EXCEPT !.g = [@ EXCEPT ![name] = value]]

\* labels_raw.replace("[", "").replace("]", "")
Unbracketed(s) == SelectSeq(s, LAMBDA c : c \notin {"[", "]"})

\* The labels: the text between the commas of labels_raw without its brackets.
AssignLabels(m, labels_raw) ==
  IF m.exc # "none" THEN m
  ELSE IF labels_raw = None THEN [m EXCEPT !.exc = "AttributeError"]
  ELSE [m EXCEPT !.g = [@ EXCEPT !.labels =
          List([i \in 1..Len(Split(Unbracketed(labels_raw.v), ",")) |->
                  Str(Split(Unbracketed(labels_raw.v), ",")[i])])]]

\* attachments = []: a new list.
NewAttachments(m) ==
  IF m.exc # "none" THEN m
  ELSE [m EXCEPT !.g = [@ EXCEPT !.lists = Append(@, <<>>),
                                  !.attachments = Len(m.g.lists) + 1]]

\* save_jira_conf(): the globals after it and the exception it raised; a global
\* assigned before the exception keeps its new value.
save_jira_conf(g, Jira) ==
  NewAttachments(
   Assign(Assign(Assign(Assign(
    AssignLabels(
     Assign(Assign(
      AssignInt(AssignInt(AssignInt(
       Assign(Assign([exc |-> "none", g |-> g],
         "enabled", getboolean_optional(Jira, "enabled")),
         "jiratoken", get_optional(Jira, "token")),
       "project_id", int(get_optional(Jira, "project_id"))),
       "project_key", int(get_optional(Jira, "project_key"))),
       "project_name", int(get_optional(Jira, "project_name"))),
      "execution_url", get_optional(Jira, "execution_url")),
      "summary_prefix", get_optional(Jira, "summary_prefix")),
     get_optional(Jira, "labels")),
    "comments", get_optional(Jira, "comments")),
    "fix_version", get_optional(Jira, "fixversion")),
    "build", get_optional(Jira, "build")),
    "only_if_changes", getboolean_optional(Jira, "onlyifchanges")))

\* add_attachment(attachment): the path is appended to the list attachments names.
add_attachment(g, attachment) ==
  IF Truthy(attachment)
    THEN [g EXCEPT !.lists = [@ EXCEPT ![g.attachments] = Append(@, attachment)]]
  ELSE g

\* '{}\n{}'.format(previous, comment)
TwoLines(previous, comment) == Str(previous.v \o <<"\n">> \o comment.v)

\* The status and the comment add_jira_status stores when the key has an entry.
MergedStatus(previous_status, test_status) ==
  IF previous_status[2] = S("Pass") /\ test_status = S("Pass") THEN S("Pass") ELSE S("Fail")

\* A plausible slip: without a new comment the stored one is not kept.
MergedComment_latest(previous_status, test_comment) ==
  IF Truthy(previous_status[3]) /\ Truthy(test_comment)
    THEN TwoLines(previous_status[3], test_comment)
  ELSE test_comment

MergedComment(previous_status, test_comment) ==
  IF Truthy(previous_status[3]) /\ Truthy(test_comment)
    THEN TwoLines(previous_status[3], test_comment)
  ELSE IF Truthy(previous_status[3]) /\ ~Truthy(test_comment) THEN previous_status[3]
  ELSE test_comment

\* attachments += previous_status[3]: the list attachments names is extended in
\* place with the elements of the stored list (with its own when they are one list).
ExtendAttachments(g, previous_status) ==
  [g EXCEPT !.lists = [@ EXCEPT ![g.attachments] = @ \o g.lists[previous_status[4].v]]]

\* jira_tests_status[test_key] = (test_key, test_status, test_comment, attachments)
StoreStatus(g, test_key, test_status, test_comment) ==
  [g EXCEPT !.jira_tests_status =
              Put(@, test_key, Tuple(<<test_key, test_status, test_comment, Ref(g.attachments)>>))]

\* add_jira_status(test_key, test_status, test_comment)
add_jira_status(g, test_key, test_status, test_comment) ==
  IF Truthy(test_key) /\ Truthy(g.enabled)
    THEN IF HasKey(g.jira_tests_status, test_key)
           THEN StoreStatus(ExtendAttachments(g, Get(g.jira_tests_status, test_key).v),
                            test_key,
                            MergedStatus(Get(g.jira_tests_status, test_key).v, test_status),
                            MergedComment(Get(g.jira_tests_status, test_key).v, test_comment))
         ELSE StoreStatus(g, test_key, test_status, test_comment)
  ELSE g

\* The test body a decorated test runs: the paths it passes to add_attachment
\* and str() of the exception it raises (None when it returns).
RECURSIVE AddAttachments(_, _)
AddAttachments(g, paths) ==
  IF paths = <<>> THEN g ELSE AddAttachments(add_attachment(g, Head(paths)), Tail(paths))

\* "The test '{}' has failed: {}".format(args[0].get_method_name(), error_message)
FailedComment(args, error_message) ==
  Str(<<"The test '", args[1], "' has failed: ">> \o error_message)

\* What a decorated test leaves: the globals, the exception it propagates with
\* its message, the number of times the test body ran, and the status and
\* comment it called add_jira_status with (None when it did not call it).
TestDone(g, exc, exc_str, ran, status, comment) ==
  [g |-> g, exc |-> exc, message |-> exc_str, ran |-> ran, status |-> status,
   comment |-> comment]

\* add_jira_status is called at the end of a decorated test.
TestStatus(g, exc, exc_str, test_key, status, comment) ==
  TestDone(add_jira_status(g, test_key, status, comment), exc, exc_str, 1, status, comment)

\* The try statement of modified_test on the globals the body left: the except
\* clause when the body raised, the statement after the try when it returned.
TestReported(g, test_key, args, test_item) ==
  IF test_item.raises = None THEN TestStatus(g, "none", None, test_key, S("Pass"), None)
  ELSE IF args = <<>>
    THEN TestDone(g, "IndexError", <<"tuple index out of range">>, 1, None, None)
  ELSE TestStatus(g, "Exception", test_item.raises, test_key, S("Fail"),
                  FailedComment(args, get_error_message_from_exception(test_item.raises)))

\* str() of the exceptions save_jira_conf raises.
save_jira_conf_str ==
  [TypeError |-> <<"int() argument must be a string, a bytes-like object or a real number">>,
   ValueError |-> <<"invalid literal for int() with base 10">>,
   AttributeError |-> <<"'NoneType' object has no attribute 'replace'">>]

\* modified_test after save_jira_conf().
TestRun(saved, test_key, args, test_item) ==
  IF saved.exc # "none"
    THEN TestDone(saved.g, saved.exc, save_jira_conf_str[saved.exc], 0, None, None)
  ELSE TestReported(AddAttachments(saved.g, test_item.attaches), test_key, args, test_item)

\* jira(test_key)(test_item)(*args): the decorated test is called.
modified_test(g, Jira, test_key, args, test_item) ==
  TestRun(save_jira_conf(g, Jira), test_key, args, test_item)

\* The tracker as one change_jira_status call finds it: whether the connection
\* is made (connect: "ok", "JIRAError" or "ConnectionError"), the projects of the
\* user (records of name, key and id), the fix versions of the project, whether
\* the issue of the test key is found, whether creating the execution and the
\* transition are accepted ("ok" or "JIRAError"), and whether the attachment and
\* log files are there ("ok" or "FileNotFoundError").

\* str(n) of an integer the model reads from a string.
str_int(n) == <<CHOOSE c \in DOMAIN DigitValue : DigitValue[c] = n>>

\* x in lst
In(x, lst) == \E i \in DOMAIN lst.v : lst.v[i] = x

\* available_keys: one list [name, key, id] for each project of server.projects()
available_keys(server) ==
  List([i \in DOMAIN server.projects |->
          List(<<Str(server.projects[i].name), Str(server.projects[i].key),
                 Str(server.projects[i].id)>>)])

project_option(g) ==
  IF Truthy(g.project_id) THEN g.project_id
  ELSE IF Truthy(g.project_key) THEN g.project_key
  ELSE g.project_name

\* server.project(id): the project with that id or key, None when there is none
\* (the client raises JIRAError).
project(server, id) ==
  IF \E i \in DOMAIN server.projects : id \in {server.projects[i].id, server.projects[i].key}
    THEN server.projects[CHOOSE i \in DOMAIN server.projects :
                           id \in {server.projects[i].id, server.projects[i].key}]
  ELSE None

\* The text a project is looked up by: str() of an integer, the text of a string.
Text(value) == IF value.t = "int" THEN str_int(value.v) ELSE value.v

RECURSIVE ByName(_, _, _)
\* for version in available_keys: if project_name in version: ...
ByName(m, keys, i) ==
  IF i > Len(keys.v) THEN m
  ELSE IF In(m.g.project_name, keys.v[i]) /\ int(keys.v[i].v[3]).exc # "none"
    THEN [m EXCEPT !.exc = int(keys.v[i].v[3]).exc, !.g.project_key = keys.v[i].v[2]]
  ELSE IF In(m.g.project_name, keys.v[i])
    THEN ByName([m EXCEPT !.g.project_key = keys.v[i].v[2],
                          !.g.project_id = int(keys.v[i].v[3]).val], keys, i + 1)
  ELSE ByName(m, keys, i + 1)

\* The fix version check of check_jira_args.
CheckFixVersion(m, server) ==
  IF m.exc # "none" THEN m
  ELSE IF project(server, Text(m.g.project_name)) = None THEN [m EXCEPT !.exc = "JIRAError"]
  ELSE IF ~\E i \in DOMAIN server.versions : Str(server.versions[i]) = m.g.fix_version
    THEN [m EXCEPT !.exc = "ValueError"]
  ELSE m

\* The project key and id check_jira_args sets once the project is found.
SetProject(m, server, found) ==
  IF found = None THEN [m EXCEPT !.exc = "JIRAError"]
  ELSE IF Truthy(m.g.project_id) THEN [m EXCEPT !.g.project_key = Str(found.key)]
  ELSE IF int(Str(found.id)).exc # "none" THEN [m EXCEPT !.exc = int(Str(found.id)).exc]
  ELSE [m EXCEPT !.g.project_id = int(Str(found.id)).val]

\* check_jira_args(server): the globals after it and the exception it raised.
check_jira_args(g, server) ==
  IF ~In(project_option(g), available_keys(server))
    THEN [exc |-> "ValueError", g |-> g]
  ELSE IF Truthy(g.project_id) \/ Truthy(g.project_key)
    THEN CheckFixVersion(SetProject([exc |-> "none", g |-> g], server,
                                    project(server, Text(project_option(g)))),
                         server)
  ELSE CheckFixVersion(ByName([exc |-> "none", g |-> g], available_keys(server), 1), server)

\* What a change_jira_status call leaves: the globals, the exception it
\* propagates and the requests it made to the tracker.
StatusChanged(g, exc, ops) == [g |-> g, exc |-> exc, ops |-> ops]

\* add_results(server, new_execution.key, test_attachments): the files are
\* attached; a missing file ends it (FileNotFoundError, caught there).
add_results(g, test_attachments, server, ops) ==
  IF server.files = "ok"
    THEN StatusChanged(g, "none",
           ops \o [i \in 1..Len(g.lists[test_attachments.v]) |-> "add_attachment"]
               \o <<"add_attachment", "close">>)
  ELSE StatusChanged(g, "none", Append(ops, "close"))

\* change_jira_status after check_jira_args(server): an exception leaves the with
\* statement, which closes the connection, and only JIRAError is caught.
Checked(m, status, server) ==
  IF m.exc = "JIRAError" THEN StatusChanged(m.g, "none", <<"JIRA", "projects", "close">>)
  ELSE IF m.exc # "none" THEN StatusChanged(m.g, m.exc, <<"JIRA", "projects", "close">>)
  ELSE IF ~server.issue
    THEN StatusChanged(m.g, "none", <<"JIRA", "projects", "search_issues", "close">>)
  ELSE IF m.g.labels = None
    THEN StatusChanged(m.g, "TypeError", <<"JIRA", "projects", "search_issues", "close">>)
  ELSE IF server.create = "JIRAError"
    THEN StatusChanged(m.g, "none",
                       <<"JIRA", "projects", "search_issues", "create_issue", "close">>)
  ELSE add_results(m.g, status[4], server,
                   <<"JIRA", "projects", "search_issues", "create_issue", "transition_issue">>)

\* change_jira_status(test_key, test_status, test_comment, test_attachments)
change_jira_status(g, status, server) ==
  IF ~Truthy(g.execution_url) THEN StatusChanged(g, "none", <<>>)
  ELSE IF server.connect = "JIRAError" THEN StatusChanged(g, "none", <<"JIRA">>)
  ELSE IF server.connect # "ok" THEN StatusChanged(g, server.connect, <<"JIRA">>)
  ELSE Checked(check_jira_args(g, server), status, server)

\* What change_all_jira_status has done so far: the globals, the exception that
\* ended it, and the test keys change_jira_status was called for.
RECURSIVE ChangeEach(_, _, _), Changed(_, _, _, _)
\* for test_status in jira_tests_status.values(): change_jira_status(*test_status)
ChangeEach(done, i, servers) ==
  IF done.exc # "none" \/ i > Len(done.g.jira_tests_status.v) THEN done
  ELSE Changed(done, i, servers,
               change_jira_status(done.g, done.g.jira_tests_status.v[i].v.v, servers[i]))

Changed(done, i, servers, changed) ==
  ChangeEach([g |-> changed.g, exc |-> changed.exc,
              sent |-> Append(done.sent, done.g.jira_tests_status.v[i].k),
              ops |-> done.ops \o changed.ops],
             i + 1, servers)

\* jira_tests_status.clear(), reached when no call raised.
Cleared(done) ==
  IF done.exc # "none" THEN done ELSE [done EXCEPT !.g.jira_tests_status = Dict(<<>>)]

\* change_all_jira_status(); servers[i] is the tracker as the i-th call finds it.
change_all_jira_status(g, servers) ==
  Cleared(ChangeEach([g |-> g, exc |-> "none", sent |-> <<>>, ops |-> <<>>], 1, servers))

-----------------------------------------------------------------------------
(* Checkbox (toolium/pageelements/checkbox_page_element.py). The element is a  *)
(* record of its class (a playwright Locator or a selenium WebElement), of the  *)
(* state of the checkbox in the page (selected, and whether a click toggles it) *)
(* and of the number of clicks it has received.                                  *)

Element(class, selected, toggles) ==
  [class |-> class, selected |-> selected, toggles |-> toggles, clicks |-> 0]

\* web_element.click()
click(e) ==
  [e EXCEPT !.clicks = @ + 1, !.selected = IF e.toggles THEN ~@ ELSE @]

\* web_element.is_checked(), a method of the Locator only.
is_checked(e) ==
  IF e.class = "Locator" THEN [exc |-> "none", val |-> e.selected]
  ELSE [exc |-> "AttributeError", val |-> FALSE]

\* web_element.is_selected(), a method of the WebElement only.
is_selected(e) ==
  IF e.class = "WebElement" THEN [exc |-> "none", val |-> e.selected]
  ELSE [exc |-> "AttributeError", val |-> FALSE]

\* Checkbox._is_selected_by_driver()
_is_selected_by_driver(e) ==
  IF e.class = "Locator" THEN is_checked(e) ELSE is_selected(e)

\* What check() and uncheck() leave: the exception raised and the element.
Clicked(e, selected, target) ==
  IF selected.exc # "none" THEN [exc |-> selected.exc, element |-> e]
  ELSE IF selected.val # target THEN [exc |-> "none", element |-> click(e)]
  ELSE [exc |-> "none", element |-> e]

\* A plausible slip: check() clicks without looking at the state.
check_toggle(e) == [exc |-> "none", element |-> click(e)]

\* Checkbox.check()
check(e) == Clicked(e, _is_selected_by_driver(e), TRUE)

\* Checkbox.uncheck()
uncheck(e) == Clicked(e, _is_selected_by_driver(e), FALSE)

-----------------------------------------------------------------------------
(* Runs of the single functions: the initial state draws the arguments, the  *)
(* action applies the function to them.                                      *)

\* The driver construction is not running.
DriverIdle ==
  /\ config = None
  /\ DesiredCapabilities = SeleniumDesiredCapabilities
  /\ base = None
  /\ session = None
  /\ local = None
  /\ received = None
  /\ requests = 0
  /\ driver = None
  /\ raised = "none"
  /\ message = None
  /\ log = <<>>
  /\ calls = 0
  /\ page = None

ConstructionVars ==
  <<config, DesiredCapabilities, base, session, local, received, requests, driver, raised,
    message, log, calls>>

DriverVars == <<ConstructionVars, page>>

\* toolium.jira is loaded and not called.
JiraIdle ==
  /\ jira = JiraGlobals
  /\ jira_config = None
  /\ reported = <<>>
  /\ reports = 0

JiraVars == <<jira, jira_config, reported, reports>>

\* Largest number of hyphen-delimited fields of a Driver type string.
MaxFields == 5

\* The fields a Driver type string is made of.
FieldValues == {<<>>, <<"chrome">>, <<"76">>, <<"on">>, <<"windows_10">>}

\* The values of the field at index 3.
PlatformValues ==
  {<<"xp">>, <<"windows_7">>, <<"windows_8">>, <<"windows_10">>, <<"linux">>, <<"android">>,
   <<"mac">>, <<"WIN10">>, <<"zz">>, <<"windows_10", "76">>, <<>>}

RECURSIVE TypeFields(_)
\* The type strings of n fields, as their fields.
TypeFields(n) ==
  IF n = 0 THEN {<<>>}
  ELSE {Append(f, x) : f \in TypeFields(n - 1),
                       x \in IF n = 4 THEN PlatformValues ELSE FieldValues}

\* The capability sets the type string is layered on.
LayeredOn ==
  {Dict(<<>>), SeleniumDesiredCapabilities.CHROME, SeleniumDesiredCapabilities.FIREFOX}

InitDriverType ==
  /\ fn = "none"
  /\ \E n \in 1..MaxFields : \E f \in TypeFields(n), c \in LayeredOn :
       arg = [fields |-> f, driver_type |-> Join(f, "-"), capabilities |-> c]
  /\ out = None
  /\ DriverIdle
  /\ JiraIdle
  /\ web_element = None

AddCapabilitiesFromDriverType ==
  /\ fn = "none"
  /\ fn' = "_add_capabilities_from_driver_type"
  /\ out' = [exc |-> "none",
             caps |-> _add_capabilities_from_driver_type(arg.capabilities, arg.driver_type)]
  /\ UNCHANGED <<arg, DriverVars, JiraVars, web_element>>

SpecDriverType == InitDriverType /\ [][AddCapabilitiesFromDriverType]_vars

\* Largest length of the strings over ValueAlphabet that are converted.
MaxLen == 4

ValueAlphabet == {"[", "]", "{", "}", "1", ",", ":"}

\* Further strings that are converted.
ValueSamples ==
  {<<"true">>, <<"True">>, <<"false">>, <<"False">>, <<"TRUE">>, <<"abc">>, <<"76">>, <<"42">>,
   <<"1", "2">>, <<"76", "abc">>, <<"WIN10">>, <<"1", ".", "2">>,
   <<"[", "1", ",", "2", "]">>, <<"[", "abc", "]">>, <<"[", "true", "]">>, <<"[", "True", "]">>,
   <<"[", "'x'", ",", "'y'", "]">>, <<"[", "]", ",", "[", "]">>, <<"[", "1", "]", "[", "1", "]">>,
   <<"{", "'x'", ":", "1", "}">>, <<"{", "'x'", ":", "{", "'y'", ":", "2", "}", "}">>,
   <<"{", "abc", "}">>, <<"{", "'x'", ":", "abc", "}">>, <<"{", "'x'", "}">>,
   <<"{", "1", ":", "1", ",", "1", ":", "2", "}">>, <<"{", "[", "]", ":", "1", "}">>}

ValueStrings == UNION {[1..n -> ValueAlphabet] : n \in 0..MaxLen} \cup ValueSamples

InitConvert ==
  /\ fn = "none"
  /\ \E s \in ValueStrings : arg = [value |-> Str(s)]
  /\ out = None
  /\ DriverIdle
  /\ JiraIdle
  /\ web_element = None

\* _convert_property_type on a string of the configuration.
ConvertPropertyType ==
  /\ fn = "none"
  /\ fn' = "_convert_property_type"
  /\ out' = _convert_property_type(arg.value)
  /\ UNCHANGED <<arg, DriverVars, JiraVars, web_element>>

\* _convert_property_type on a value it has returned.
ConvertAgain ==
  /\ fn = "_convert_property_type"
  /\ out.exc = "none"
  /\ fn' = "_convert_property_type again"
  /\ arg' = [value |-> out.val]
  /\ out' = _convert_property_type(out.val)
  /\ UNCHANGED <<DriverVars, JiraVars, web_element>>

NextConvert == ConvertPropertyType \/ ConvertAgain

SpecConvert == InitConvert /\ [][NextConvert]_vars

\* The dictionaries that are merged: up to two keys, each with a leaf, a
\* dictionary of leaves or a dictionary holding one.
MergeLeaves == {Num(1), Num(2)}

MergeInner ==
  {Dict(<<>>), Dict(<<Item(S("x"), Num(1))>>), Dict(<<Item(S("x"), Num(2))>>),
   Dict(<<Item(S("y"), Num(2))>>), Dict(<<Item(S("x"), Num(1)), Item(S("y"), Num(1))>>),
   Dict(<<Item(S("x"), Dict(<<Item(S("z"), Num(1))>>))>>),
   Dict(<<Item(S("x"), Dict(<<Item(S("w"), Num(2))>>)), Item(S("y"), Num(2))>>)}

MergeValues == MergeLeaves \cup MergeInner

MergeDicts ==
  {Dict(<<>>)}
    \cup {Dict(<<Item(S(k), v)>>) : k \in {"a", "b"}, v \in MergeValues}
    \cup {Dict(<<Item(S("a"), v), Item(S("b"), w)>>) : v \in MergeValues, w \in MergeValues}

\* The configurations of the chrome options: what _create_chrome_options reads.
ChromeConfigs ==
  [headless : BOOLEAN, os_name : {"posix", "nt"}, Chrome_binary : {None, S("/opt/chrome")},
   ChromePreferences : {None, Dict(<<>>), Dict(<<Item(S("download"), S("false"))>>)},
   ChromeMobileEmulation : {None, Dict(<<Item(S("deviceName"), S("abc"))>>)},
   ChromeArguments : {None, Dict(<<Item(S("lang"), S("abc")), Item(S("incognito"), Str(<<>>))>>)},
   options_KEY : {"goog:chromeOptions", "chromeOptions"}]

\* The capability sets the chrome options are added to.
ChromeLayeredOn ==
  {SeleniumDesiredCapabilities.CHROME,
   Put(SeleniumDesiredCapabilities.CHROME, S("version"), S("76")),
   Put(SeleniumDesiredCapabilities.CHROME, S("goog:chromeOptions"),
       Dict(<<Item(S("args"), List(<<S("abc")>>)), Item(S("w3c"), Bool(FALSE))>>)),
   Put(SeleniumDesiredCapabilities.CHROME, S("chromeOptions"), S("abc"))}

InitUpdateDict ==
  /\ fn = "none"
  /\ \/ \E i \in MergeDicts, u \in MergeDicts, k \in {NoKey, S("a"), S("b")} :
          arg = [of |-> "_update_dict", initial |-> i, update |-> u, initial_key |-> k]
     \/ \E c \in ChromeLayeredOn, cfg \in ChromeConfigs :
          arg = [of |-> "_add_chrome_options_to_capabilities", capabilities |-> c, cfg |-> cfg]
  /\ out = None
  /\ DriverIdle
  /\ JiraIdle
  /\ web_element = None

UpdateDict ==
  /\ fn = "none"
  /\ arg.of = "_update_dict"
  /\ fn' = "_update_dict"
  /\ out' = _update_dict(arg.initial, arg.update, arg.initial_key)
  /\ UNCHANGED <<arg, DriverVars, JiraVars, web_element>>

AddChromeOptionsToCapabilities ==
  /\ fn = "none"
  /\ arg.of = "_add_chrome_options_to_capabilities"
  /\ fn' = "_add_chrome_options_to_capabilities"
  /\ out' = _add_chrome_options_to_capabilities(arg.capabilities, arg.cfg)
  /\ UNCHANGED <<arg, DriverVars, JiraVars, web_element>>

NextUpdateDict == UpdateDict \/ AddChromeOptionsToCapabilities

SpecUpdateDict == InitUpdateDict /\ [][NextUpdateDict]_vars

\* The strings a configuration section gives a capability.
SectionValues ==
  {<<"76">>, <<"true">>, <<"abc">>, <<"[", "1", ",", "2", "]">>, <<"{", "'x'", ":", "1", "}">>,
   <<"{", "}">>, <<"{", "abc", "}">>}

SectionKeys == {"version", "platform", "app"}

\* The sections: none, or up to two capabilities.
Sections ==
  {None, Dict(<<>>)}
    \cup {Dict(<<Item(S(k), Str(v))>>) : k \in SectionKeys, v \in SectionValues}
    \cup UNION {{Dict(<<Item(S(k), Str(v)), Item(S(l), Str(w))>>) :
                   l \in SectionKeys \ {k}, v \in SectionValues, w \in SectionValues} :
                k \in SectionKeys}

InitProperties ==
  /\ fn = "none"
  /\ \E c \in {Dict(<<>>), SeleniumDesiredCapabilities.CHROME,
               Put(Dict(<<>>), S("app"), Dict(<<Item(S("y"), Num(2))>>))},
        sec \in Sections :
       arg = [capabilities |-> c, section |-> sec]
  /\ out = None
  /\ DriverIdle
  /\ JiraIdle
  /\ web_element = None

AddCapabilitiesFromProperties ==
  /\ fn = "none"
  /\ fn' = "_add_capabilities_from_properties"
  /\ out' = _add_capabilities_from_properties(arg.capabilities, arg.section)
  /\ UNCHANGED <<arg, DriverVars, JiraVars, web_element>>

SpecProperties == InitProperties /\ [][AddCapabilitiesFromProperties]_vars

-----------------------------------------------------------------------------
(* The playwright page: it is set up, and then the operations of a driver are  *)
(* called on it with the arguments selenium's driver takes.                    *)

\* The operations of the produced object, each with the arguments it is called with.
Arguments ==
  [get |-> {<<"a.example">>, <<"b.example">>},
   execute_script |-> {<<"return 1">>},
   refresh |-> {<<>>},
   set_window_position |-> {<<0, 0>>, <<10, 20>>},
   get_window_position |-> {<<>>},
   set_window_size |-> {<<800, 600>>, <<1024, 768>>},
   get_window_size |-> {<<>>},
   maximize_window |-> {<<>>},
   get_cookies |-> {<<>>},
   delete_all_cookies |-> {<<>>},
   implicitly_wait |-> {<<0>>, <<5>>},
   close |-> {<<>>},
   get_screenshot_as_file |-> {<<"shot.png">>, <<"page.png">>}]

InitPlaywright ==
  /\ fn = "none"
  /\ arg = None
  /\ out = None
  /\ DriverIdle
  /\ JiraIdle
  /\ web_element = None

SetupPlaywright ==
  /\ page = None
  /\ \E capabilities \in {PlaywrightCapabilities, Dict(<<>>)} :
       /\ page' = _setup_playwright(capabilities)
       /\ arg' = capabilities
  /\ fn' = "_setup_playwright"
  /\ out' = None
  /\ UNCHANGED <<ConstructionVars, JiraVars, web_element>>

Called(name, args, result) ==
  /\ page' = result.page
  /\ fn' = name
  /\ arg' = args
  /\ out' = [exc |-> result.exc, val |-> result.val]

CallPage ==
  /\ page # None
  /\ \E name \in DOMAIN Arguments : \E args \in Arguments[name] :
       Called(name, args, CallAttr(page, name, args))
  /\ UNCHANGED <<ConstructionVars, JiraVars, web_element>>

NextPlaywright == SetupPlaywright \/ CallPage

SpecPlaywright == InitPlaywright /\ [][NextPlaywright]_vars

-----------------------------------------------------------------------------
(* toolium.jira called by a test run: decorated tests, add_attachment,          *)
(* add_jira_status, save_jira_conf and change_all_jira_status, in any order.    *)

\* Largest number of calls into toolium.jira.
MaxReports == 3

\* A Jira section that save_jira_conf reads without an exception.
NumericJira ==
  [enabled |-> S("true"), token |-> S("secret"), project_id |-> S("42"), project_key |-> S("1"),
   project_name |-> S("2"), execution_url |-> S("https://jira.example"),
   summary_prefix |-> None, labels |-> Str(<<"[", "ui", ",", "smoke", "]">>), comments |-> None,
   fixversion |-> S("1.0"), build |-> None, onlyifchanges |-> None]

\* The Jira sections: the one above, the same disabled, without an execution url,
\* with a project key and name that are text, without a project id, without labels.
JiraSections ==
  {NumericJira,
   [NumericJira EXCEPT !.enabled = S("false")],
   [NumericJira EXCEPT !.execution_url = None, !.comments = S("nightly")],
   [NumericJira EXCEPT !.project_key = S("WEB"), !.project_name = S("Web")],
   [NumericJira EXCEPT !.project_id = None],
   [NumericJira EXCEPT !.labels = None]}

TestKeys == {S("T-1"), S("T-2"), Str(<<>>)}

TestComments == {None, Str(<<>>), S("a")}

\* The test bodies: what each passes to add_attachment and what it raises.
TestItems ==
  [attaches : {<<>>, <<S("a.png")>>},
   raises : {None, <<"expected 1", "\n", "got 2">>}]

\* The arguments of a decorated test: none, or the test case with its method name.
TestArgs == {<<>>, <<"test_login">>}

\* The tracker as a change_jira_status call can find it.
ReachableServer ==
  [connect |-> "ok", projects |-> <<[name |-> <<"2">>, key |-> <<"1">>, id |-> <<"42">>]>>,
   versions |-> << <<"1.0">> >>, issue |-> TRUE, create |-> "ok", transition |-> "ok",
   files |-> "ok"]

Servers ==
  {ReachableServer,
   [ReachableServer EXCEPT !.connect = "JIRAError"],
   [ReachableServer EXCEPT !.connect = "ConnectionError"],
   [ReachableServer EXCEPT !.projects = <<>>],
   [ReachableServer EXCEPT !.issue = FALSE],
   [ReachableServer EXCEPT !.create = "JIRAError"],
   [ReachableServer EXCEPT !.transition = "JIRAError", !.files = "FileNotFoundError"]}

InitJira ==
  /\ fn = "none"
  /\ arg = None
  /\ out = None
  /\ DriverIdle
  /\ jira = JiraGlobals
  /\ jira_config \in JiraSections
  /\ web_element = None
  /\ reported = <<>>
  /\ reports = 0

\* One more call into toolium.jira.
JiraCall(name, args) ==
  /\ reports < MaxReports
  /\ reports' = reports + 1
  /\ fn' = name
  /\ arg' = args
  /\ UNCHANGED <<DriverVars, jira_config, web_element>>

\* The add_jira_status call of the claim's kind: Jira enabled and a test key.
Report(g, test_key, status, comment) ==
  IF status # None /\ Truthy(test_key) /\ Truthy(g.enabled)
    THEN <<[key |-> test_key, status |-> status, comment |-> comment]>>
  ELSE <<>>

SaveJiraConf ==
  /\ JiraCall("save_jira_conf", <<>>)
  /\ jira' = save_jira_conf(jira, jira_config).g
  /\ out' = [exc |-> save_jira_conf(jira, jira_config).exc]
  /\ UNCHANGED reported

AddAttachment ==
  \E attachment \in {S("b.png"), Str(<<>>)} :
    /\ JiraCall("add_attachment", <<attachment>>)
    /\ jira' = add_attachment(jira, attachment)
    /\ out' = [exc |-> "none"]
    /\ UNCHANGED reported

AddJiraStatus ==
  \E test_key \in TestKeys, test_status \in {S("Pass"), S("Fail")}, test_comment \in TestComments :
    /\ JiraCall("add_jira_status", <<test_key, test_status, test_comment>>)
    /\ jira' = add_jira_status(jira, test_key, test_status, test_comment)
    /\ out' = [exc |-> "none"]
    /\ reported' = reported \o Report(jira, test_key, test_status, test_comment)

\* What a decorated test leaves behind.
Tested(test_key, done) ==
  /\ jira' = done.g
  /\ out' = [exc |-> done.exc, message |-> done.message, ran |-> done.ran]
  /\ reported' = reported \o Report(done.g, test_key, done.status, done.comment)

JiraTest ==
  \E test_key \in TestKeys, args \in TestArgs, test_item \in TestItems :
    /\ JiraCall("jira", <<test_key, args, test_item>>)
    /\ Tested(test_key, modified_test(jira, jira_config, test_key, args, test_item))

\* What a flush leaves behind.
Flushed(done) ==
  /\ jira' = done.g
  /\ out' = [exc |-> done.exc, sent |-> done.sent, ops |-> done.ops]
  /\ reported' = IF done.exc = "none" THEN <<>> ELSE reported

ChangeAllJiraStatus ==
  \E servers \in [1..Len(jira.jira_tests_status.v) -> Servers] :
    /\ JiraCall("change_all_jira_status", <<>>)
    /\ Flushed(change_all_jira_status(jira, servers))

\* check_jira_args(server) on a connection that was made.
CheckJiraArgs ==
  \E server \in {s \in Servers : s.connect = "ok"} :
    /\ JiraCall("check_jira_args", <<server>>)
    /\ jira' = check_jira_args(jira, server).g
    /\ out' = [exc |-> check_jira_args(jira, server).exc]
    /\ UNCHANGED reported

NextJira ==
  \/ SaveJiraConf
  \/ AddAttachment
  \/ AddJiraStatus
  \/ JiraTest
  \/ ChangeAllJiraStatus
  \/ CheckJiraArgs

SpecJira == InitJira /\ [][NextJira]_vars

-----------------------------------------------------------------------------
(* Calls of a Checkbox page element: check(), uncheck() and is_selected(), and  *)
(* clicks on the element made by the test or the user in between.               *)

MaxClicks == 3

InitCheckbox ==
  /\ fn = "none"
  /\ arg = None
  /\ out = None
  /\ DriverIdle
  /\ JiraIdle
  /\ web_element \in {Element(class, selected, toggles) :
                        class \in {"Locator", "WebElement"}, selected \in BOOLEAN,
                        toggles \in BOOLEAN}

\* One call: the exception it raised, the clicks it made, whether the checkbox
\* was selected before it, and the call before it.
CheckboxCall(name, done) ==
  /\ web_element.clicks < MaxClicks
  /\ fn' = name
  /\ web_element' = done.element
  /\ out' = [exc |-> done.exc, clicks |-> done.element.clicks - web_element.clicks,
             selected |-> web_element.selected, previous |-> fn]
  /\ UNCHANGED <<arg, DriverVars, JiraVars>>

Check == CheckboxCall("check", check(web_element))

Uncheck == CheckboxCall("uncheck", uncheck(web_element))

\* Checkbox.is_selected()
IsSelected ==
  CheckboxCall("is_selected", [exc |-> _is_selected_by_driver(web_element).exc,
                                 element |-> web_element])

\* web_element.click() outside check() and uncheck().
Click == CheckboxCall("click", [exc |-> "none", element |-> click(web_element)])

NextCheckbox == Check \/ Uncheck \/ IsSelected \/ Click

SpecCheckbox == InitCheckbox /\ [][NextCheckbox]_vars

-----------------------------------------------------------------------------
(* create_driver on one shared configuration, called time and again *)

\* Largest number of create_driver calls.
MaxCalls == 2

\* The driver names: those the code knows and one it does not.
DriverNames ==
  {"firefox", "chrome", "safari", "opera", "iexplore", "edge", "phantomjs", "playwright",
   "android", "ios", "iphone", "netscape"}

\* The Driver types: a name alone, with a version, with a version and a platform.
DriverTypes ==
  {<<n>> \o s : n \in DriverNames,
                s \in {<<>>, <<"-", "76">>, <<"-", "76", "-", "on", "-", "windows_10">>}}

CapabilitiesSections ==
  {None,
   Dict(<<Item(S("version"), S("42"))>>),
   Dict(<<Item(S("platform"), S("linux")), Item(S("app"), S("1"))>>),
   Dict(<<Item(S("platform"), Str(<<"{", "'x'", ":", "1", "}">>))>>),
   Dict(<<Item(S("app"), Str(<<"[", ",", "]">>))>>)}

AppiumCapabilitiesSections ==
  {None,
   Dict(<<Item(S("platform"), S("android"))>>),
   Dict(<<Item(S("version"), S("1")), Item(S("app"), S("abc"))>>)}

Configs ==
  [type : DriverTypes, enabled : BOOLEAN, host : {<<"10.0.0.1">>}, port : {<<"4444">>},
   driver_path : {None, S("/opt/driver")}, headless : {FALSE}, os_name : {"posix"},
   Capabilities : CapabilitiesSections, AppiumCapabilities : AppiumCapabilitiesSections,
   FirefoxPreferences : {None, Dict(<<Item(S("dom"), S("true"))>>)},
   ChromePreferences : {None, Dict(<<Item(S("download"), S("false"))>>)},
   ChromeMobileEmulation : {None}, ChromeArguments : {None}, Chrome_binary : {None},
   options_KEY : {"goog:chromeOptions"}]

Init ==
  /\ fn = "none"
  /\ arg = None
  /\ out = None
  /\ config \in Configs
  /\ DesiredCapabilities = SeleniumDesiredCapabilities
  /\ base = None
  /\ session = None
  /\ local = None
  /\ received = None
  /\ requests = 0
  /\ driver = None
  /\ raised = "none"
  /\ message = None
  /\ log = <<>>
  /\ calls = 0
  /\ page = None
  /\ JiraIdle
  /\ web_element = None

\* str() of the exception the backend raises when the browser or the session
\* cannot be launched: one line, several lines, or nothing at all.
LaunchMessages ==
  {<<"Message: session not created", "\n">>,
   <<"Message: unknown error", "\n", "Stacktrace:", "\n", "#0 main">>,
   <<"\n", "connection refused">>,
   <<>>}

\* The key of Driver each setup routine reads its driver path from.
driver_path_key ==
  [firefox |-> "gecko_driver_path", chrome |-> "chrome_driver_path",
   opera |-> "opera_driver_path", iexplore |-> "explorer_driver_path",
   edge |-> "edge_driver_path", phantomjs |-> "phantomjs_driver_path"]

\* str(exc) of the exception a construction raised; launch_message is that of
\* the backend.
str(c, launch_message) ==
  IF c.exc = "WebDriverException" THEN launch_message
  ELSE IF c.exc = "NoOptionError"
    THEN <<"No option '", driver_path_key[get_driver_name(c.cfg)[1]], "' in section: 'Driver'">>
  ELSE IF c.exc = "ValueError" /\ c.base = None
    THEN <<"Unknown driver ">> \o get_driver_name(c.cfg)
  ELSE IF c.exc = "ValueError" THEN <<"malformed node or string">>
  ELSE IF c.exc = "SyntaxError" THEN <<"invalid syntax (<unknown>, line 1)">>
  ELSE IF c.exc = "TypeError" THEN <<"object does not support item assignment">>
  ELSE <<"object has no attribute 'get'">>

\* The records create_driver logs: the info record of the path taken and, in the
\* except clause, the error record.
Logged(cfg, exc, exception_str) ==
  <<[level |-> "info", remote |-> cfg.enabled, type |-> cfg.type]>>
    \o IF exc # "none"
         THEN <<[level |-> "error", type |-> cfg.type, exc |-> exc,
                 error_message |-> get_error_message_from_exception(exception_str)]>>
       ELSE <<>>

\* What a construction leaves behind. The capabilities object is written to in
\* place: when it is the dictionary of a class attribute, that attribute holds
\* what was written. The exception caught is logged and raised again.
Constructed(c, exception_str) ==
  /\ config' = c.cfg
  /\ DesiredCapabilities' = IF c.shared = "no" THEN DesiredCapabilities
                            ELSE [DesiredCapabilities EXCEPT ![c.shared] = c.caps]
  /\ base' = c.base
  /\ session' = c.session
  /\ local' = c.local
  /\ received' = c.received
  /\ requests' = c.requests
  /\ driver' = c.handle
  /\ raised' = c.exc
  /\ message' = IF c.exc # "none" THEN exception_str ELSE None
  /\ log' = Logged(config, c.exc, exception_str)

\* The except clause of create_driver, given the exception's str().
Raised(c, launch_message) == Constructed(c, str(c, launch_message))

\* create_driver(): the driver is constructed and returned, or the exception is
\* logged and raised again.
CreateDriver ==
  /\ calls < MaxCalls
  /\ calls' = calls + 1
  /\ \E backend_ok \in BOOLEAN, launch_message \in LaunchMessages :
       Raised(create_driver(config, DesiredCapabilities, backend_ok), launch_message)
  /\ UNCHANGED <<fn, arg, out, page, JiraVars, web_element>>

Next == CreateDriver

Spec == Init /\ [][Next]_vars

-----------------------------------------------------------------------------
(* Properties of _add_capabilities_from_driver_type, under SpecDriverType *)

TypeApplied == fn = "_add_capabilities_from_driver_type"

\* The entry of key k: its value, or Absent.
Absent == [t |-> "absent", v |-> 0]

Entry(d, k) == IF HasKey(d, k) THEN Get(d, k) ELSE Absent

\* Every key but those of `except` is in both dictionaries with the same value, or
\* in neither.
SameExcept(d, e, except) ==
  \A k \in (Keys(d) \cup Keys(e)) \ except : Entry(d, k) = Entry(e, k)

\* C2 as the specification states it: "chrome-76-windows_10" yields version "76" and
\* platform "WIN10".
C2_AsStated ==
  (TypeApplied /\ arg.driver_type = <<"chrome", "-", "76", "-", "windows_10">>)
    => /\ Entry(out.caps, S("version")) = S("76")
       /\ Entry(out.caps, S("platform")) = S("WIN10")

\* C2, amended: "chrome-76-windows_10" has three fields, so it yields version "76" and
\* leaves the platform entry as it was (absent when it was absent); it is
\* "chrome-76-on-windows_10", with the platform code as fourth field, that yields
\* version "76" and platform "WIN10".
C2_ThreeFieldsNoPlatform ==
  /\ (TypeApplied /\ arg.driver_type = <<"chrome", "-", "76", "-", "windows_10">>)
       => /\ Entry(out.caps, S("version")) = S("76")
          /\ Entry(out.caps, S("platform")) = Entry(arg.capabilities, S("platform"))
  /\ (TypeApplied /\ arg.driver_type = <<"chrome", "-", "76", "-", "on", "-", "windows_10">>)
       => /\ Entry(out.caps, S("version")) = S("76")
          /\ Entry(out.caps, S("platform")) = S("WIN10")

C2_Witness ==
  /\ TypeApplied
  /\ arg.driver_type = <<"chrome", "-", "76", "-", "windows_10">>
  /\ arg.capabilities = Dict(<<>>)
  /\ Keys(out.caps) = {S("version")}

\* C3 as the specification states it: with fewer than 4 fields the capability mapping
\* is the same after the call as before it.
C3_AsStated ==
  (TypeApplied /\ Len(arg.fields) < 4) => (out.exc = "none" /\ out.caps = arg.capabilities)

\* C3, amended: with fewer than 4 fields no error is raised and no key but 'version'
\* is added or changed (so no 'platform'); with 1 field the mapping is unchanged,
\* with 2 or 3 fields 'version' is set to field[1].
C3_ShortTypeSetsVersionOnly ==
  (TypeApplied /\ Len(arg.fields) < 4)
    => /\ out.exc = "none"
       /\ SameExcept(out.caps, arg.capabilities, {S("version")})
       /\ Len(arg.fields) = 1 => out.caps = arg.capabilities
       /\ Len(arg.fields) \in {2, 3} => Entry(out.caps, S("version")) = Str(arg.fields[2])

C3_Witness ==
  /\ TypeApplied
  /\ Len(arg.fields) = 3
  /\ arg.capabilities = SeleniumDesiredCapabilities.FIREFOX
  /\ HasKey(out.caps, S("version"))
  /\ ~HasKey(out.caps, S("platform"))

\* The platform a platform code stands for.
PlatformOf(code) ==
  CASE code = <<"xp">> -> <<"XP">>
    [] code = <<"windows_7">> -> <<"VISTA">>
    [] code = <<"windows_8">> -> <<"WIN8">>
    [] code = <<"windows_10">> -> <<"WIN10">>
    [] code = <<"linux">> -> <<"LINUX">>
    [] code = <<"android">> -> <<"ANDROID">>
    [] code = <<"mac">> -> <<"MAC">>
    [] OTHER -> code

\* C4: with at least 4 fields 'version' is field[1] and 'platform' is the translation
\* of field[3], or field[3] itself when the table does not hold it; no other key
\* changes, and field[2] and the fields from index 4 on have no effect.
C4_VersionAndPlatformByPosition ==
  (TypeApplied /\ Len(arg.fields) >= 4)
    => /\ out.exc = "none"
       /\ Entry(out.caps, S("version")) = Str(arg.fields[2])
       /\ Entry(out.caps, S("platform")) = Str(PlatformOf(arg.fields[4]))
       /\ SameExcept(out.caps, arg.capabilities, {S("version"), S("platform")})

C4_Witness ==
  /\ TypeApplied
  /\ Len(arg.fields) = 5
  /\ arg.fields[3] = <<"windows_10">>
  /\ arg.fields[4] = <<"windows_7">>
  /\ arg.fields[5] = <<"76">>
  /\ Entry(out.caps, S("platform")) = S("VISTA")

-----------------------------------------------------------------------------
(* Properties of _convert_property_type, under SpecConvert *)

Converted == fn = "_convert_property_type"

ConvertedAgain == fn = "_convert_property_type again"

AllDigits(s) == s # <<>> /\ \A i \in DOMAIN s : s[i] \in {"1", "2", "42", "76"}

Bracketed(s) ==
  \/ StartsWith(s, "{") /\ EndsWith(s, "}")
  \/ StartsWith(s, "[") /\ EndsWith(s, "]")

C6_AsStated ==
  (ConvertedAgain /\ arg.value.t \in {"bool", "int", "list", "dict", "str"})
    => out = [exc |-> "none", val |-> arg.value]

\* C6, amended: the conversion returns again, without an error, an integer or a
\* plain string it has returned; a boolean it returns as the integer 1 or 0; a
\* list or a mapping it does not return: it raises ValueError.
C6_IdempotentOnIntegersAndStrings ==
  ConvertedAgain =>
    /\ arg.value.t \in {"int", "str"} => out = [exc |-> "none", val |-> arg.value]
    /\ arg.value.t = "bool"
         => out = [exc |-> "none", val |-> Num(IF arg.value.v THEN 1 ELSE 0)]
    /\ arg.value.t \in {"list", "dict"} => out = [exc |-> "ValueError", val |-> None]

C6_Witness ==
  /\ ConvertedAgain
  /\ arg.value = List(<<Num(1), Num(2)>>)
  /\ out.exc = "ValueError"

-----------------------------------------------------------------------------
(* Properties of _add_capabilities_from_properties, under SpecProperties *)

PropertiesAdded == fn = "_add_capabilities_from_properties" /\ arg.section # None

\* The value handed to the merge for the i-th item of the section.
MergedValue(i) == out.updates[i].v[1].v

\* C7 as the specification states it: whatever the key, the value merged for a
\* section item is the conversion of its string.
C7_AsStated ==
  PropertiesAdded =>
    \A i \in DOMAIN out.updates :
      /\ out.updates[i].v[1].k = arg.section.v[i].k
      /\ MergedValue(i) = _convert_property_type(arg.section.v[i].v).val

\* C7, amended: the items of the section are merged in their order, each under its
\* own key; the value merged is the conversion of the string for every key but
\* 'version', and the string itself, unconverted, for 'version' (a 'version' of
\* "76" is merged as the string "76"). A value that is no mapping is what the
\* capability holds afterwards.
C7_ConvertedButVersion ==
  PropertiesAdded =>
    /\ out.exc = "none" => Len(out.updates) = Len(arg.section.v)
    /\ \A i \in DOMAIN out.updates :
         /\ out.updates[i].v[1].k = arg.section.v[i].k
         /\ MergedValue(i) = IF arg.section.v[i].k = S("version") THEN arg.section.v[i].v
                             ELSE _convert_property_type(arg.section.v[i].v).val
         /\ (out.exc = "none" /\ ~IsDict(MergedValue(i)))
              => Entry(out.caps, arg.section.v[i].k) = MergedValue(i)

C7_Witness ==
  /\ PropertiesAdded
  /\ arg.section = Dict(<<Item(S("version"), S("76")), Item(S("platform"), S("76"))>>)
  /\ Entry(out.caps, S("version")) = S("76")
  /\ Entry(out.caps, S("platform")) = Num(76)

-----------------------------------------------------------------------------
(* Properties of _update_dict, under SpecUpdateDict *)

Updated == fn = "_update_dict"

\* C8 as the specification states it: without initial_key no error is raised; at
\* each key of update a value that is no mapping is what the result holds, a
\* mapping over a mapping is merged with it, a mapping over a value that is no
\* mapping or over nothing is what the result holds; the other keys of initial
\* are kept.
C8_AsStated ==
  (Updated /\ arg.initial_key = NoKey) =>
    /\ out.exc = "none"
    /\ SameExcept(out.val, arg.initial, Keys(arg.update))
    /\ \A k \in Keys(arg.update) :
         LET value == Get(arg.update, k)
             before == Entry(arg.initial, k)
         IN IF ~IsDict(value) THEN Entry(out.val, k) = value
            ELSE IF IsDict(before)
              THEN Entry(out.val, k) = _update_dict(before, value, NoKey).val
            ELSE Entry(out.val, k) = value

\* C9: with initial_key = k no top-level entry but that of k changes, whatever
\* update holds and whether or not an error is raised; when update has no k
\* nothing changes; when it has one and no error is raised, a value that is no
\* mapping is the entry of k, and of a mapping every key is in the entry of k,
\* with its value when that is no mapping. _add_chrome_options_to_capabilities
\* changes no entry but that of the options key.
C9_OnlyInitialKeyChanges ==
  /\ (Updated /\ arg.initial_key # NoKey) =>
       LET k == arg.initial_key
           value == Get(arg.update, k)
       IN /\ SameExcept(out.val, arg.initial, {k})
          /\ ~HasKey(arg.update, k) => out = [exc |-> "none", val |-> arg.initial]
          /\ (HasKey(arg.update, k) /\ out.exc = "none" /\ ~IsDict(value))
               => Entry(out.val, k) = value
          /\ (HasKey(arg.update, k) /\ out.exc = "none" /\ IsDict(value))
               => \A nk \in Keys(value) :
                    /\ IsDict(Entry(out.val, k))
                    /\ HasKey(Get(out.val, k), nk)
                    /\ ~IsDict(Get(value, nk)) => Get(Get(out.val, k), nk) = Get(value, nk)
  /\ fn = "_add_chrome_options_to_capabilities" =>
       /\ SameExcept(out.val, arg.capabilities, {S(arg.cfg.options_KEY)})
       /\ Entry(out.val, S("browserName")) = Entry(arg.capabilities, S("browserName"))

C9_Witness ==
  /\ Updated
  /\ arg.initial_key = S("a")
  /\ arg.initial = Dict(<<Item(S("a"), Dict(<<Item(S("x"), Num(1))>>)), Item(S("b"), Num(1))>>)
  /\ arg.update = Dict(<<Item(S("a"), Dict(<<Item(S("y"), Num(2))>>)), Item(S("b"), Num(2))>>)
  /\ out.val = Dict(<<Item(S("a"), Dict(<<Item(S("x"), Num(1)), Item(S("y"), Num(2))>>)),
                      Item(S("b"), Num(1))>>)

-----------------------------------------------------------------------------
(* Properties of create_driver, under Spec *)

\* The fixed base mapping of a driver name.
BaseOf(driver_name) ==
  IF CapabilitiesAttribute(driver_name) # "no"
    THEN SeleniumDesiredCapabilities[CapabilitiesAttribute(driver_name)]
  ELSE IF driver_name = <<"playwright">> THEN PlaywrightCapabilities
  ELSE Dict(<<>>)

RecognizedNames ==
  {<<"firefox">>, <<"chrome">>, <<"safari">>, <<"opera">>, <<"iexplore">>, <<"edge">>,
   <<"phantomjs">>, <<"playwright">>, <<"android">>, <<"ios">>, <<"iphone">>}

\* C1: in every create_driver call, the first as well as a later one, a recognized
\* driver name is given the fixed base mapping of that name, whatever else the
\* configuration holds and whatever was layered on the mapping in an earlier call
\* (the empty mapping for android, ios and iphone); any other name raises
\* ValueError, no mapping is returned and nothing is constructed.
C1_BaseByNameOnly ==
  calls > 0 =>
    IF get_driver_name(config) \in RecognizedNames
      THEN /\ base = BaseOf(get_driver_name(config))
           /\ get_driver_name(config) \in MobileNames => base = Dict(<<>>)
           /\ get_driver_name(config) = <<"chrome">>
                => base = Dict(<<Item(S("browserName"), S("chrome")),
                                 Item(S("version"), Str(<<>>)),
                                 Item(S("platform"), S("ANY"))>>)
      ELSE base = None /\ raised = "ValueError" /\ session = None /\ local = None /\ driver = None

C1_Witness ==
  /\ calls = 2
  /\ config.type = <<"chrome", "-", "76", "-", "on", "-", "windows_10">>
  /\ session # None
  /\ Entry(session.caps, S("platform")) = S("WIN10")
  /\ base = SeleniumDesiredCapabilities.CHROME

\* The value a section gives a capability.
SectionValue(section, k) ==
  IF k = "version" THEN Get(section, S(k)) ELSE _convert_property_type(Get(section, S(k))).val

SectionSets(section, k) == section # None /\ HasKey(section, S(k))

\* The value of capability k in the latest layer that sets it: AppiumCapabilities
\* (mobile names only), else Capabilities, else the type string (version from 2
\* fields on, platform from 4 fields on), else the base mapping.
LatestLayer(k) ==
  LET fields == Split(config.type, "-")
  IN IF get_driver_name(config) \in MobileNames /\ SectionSets(config.AppiumCapabilities, k)
       THEN SectionValue(config.AppiumCapabilities, k)
     ELSE IF SectionSets(config.Capabilities, k) THEN SectionValue(config.Capabilities, k)
     ELSE IF k = "version" /\ Len(fields) >= 2 THEN Str(fields[2])
     ELSE IF k = "platform" /\ Len(fields) >= 4 THEN Str(PlatformOf(fields[4]))
     ELSE Entry(BaseOf(get_driver_name(config)), S(k))

\* C10: the capabilities of a session request hold, for each capability the
\* layers set to a leaf, the value of the latest layer that sets it, the layers
\* being in order the base mapping, the type string, Capabilities and, for the
\* mobile names, AppiumCapabilities.
C10_LaterLayerWins ==
  session # None =>
    \A k \in {"version", "platform", "app"} :
      ~IsDict(LatestLayer(k)) => Entry(session.caps, S(k)) = LatestLayer(k)

C10_Witness ==
  /\ session # None
  /\ config.type = <<"android", "-", "76", "-", "on", "-", "windows_10">>
  /\ config.Capabilities = Dict(<<Item(S("platform"), S("linux")), Item(S("app"), S("1"))>>)
  /\ config.AppiumCapabilities = Dict(<<Item(S("platform"), S("android"))>>)
  /\ session.caps = Dict(<<Item(S("version"), S("76")), Item(S("platform"), S("android")),
                           Item(S("app"), Num(1))>>)

-----------------------------------------------------------------------------
(* Properties of the local path of create_driver, under Spec *)

\* The value of capability k in the latest layer of the local path that sets it:
\* Capabilities, else the base mapping.
LocalLayer(k) ==
  IF SectionSets(config.Capabilities, k) THEN SectionValue(config.Capabilities, k)
  ELSE Entry(BaseOf(get_driver_name(config)), S(k))

\* C11 as stated: the capabilities a local setup routine is called with hold, for
\* each capability, the value of the latest of the base mapping, the version and
\* platform of the Driver type string, and the Capabilities section.
C11_AsStated ==
  received # None =>
    \A k \in {"version", "platform", "app"} :
      ~IsDict(LatestLayer(k)) => Entry(received, S(k)) = LatestLayer(k)

\* C11: on the local path every name of the dispatch table has its setup routine
\* called unless resolving the capabilities raised, and the capabilities it is
\* called with hold, for each capability, the value of the Capabilities section
\* if it sets one and else that of the base mapping of the name: the version
\* and the platform of the Driver type string are not applied.
C11_LocalBaseThenCapabilities ==
  /\ received # None =>
       /\ ~config.enabled
       /\ get_driver_name(config)[1] \in DOMAIN driver_setup
       /\ \A k \in {"version", "platform", "app"} :
            ~IsDict(LocalLayer(k)) => Entry(received, S(k)) = LocalLayer(k)
  /\ (calls > 0 /\ ~config.enabled /\ raised = "none"
        /\ get_driver_name(config) \notin MobileNames) => received # None

C11_Witness ==
  /\ received # None
  /\ config.type = <<"chrome", "-", "76", "-", "on", "-", "windows_10">>
  /\ config.Capabilities = Dict(<<Item(S("platform"), S("linux")), Item(S("app"), S("1"))>>)
  /\ Entry(received, S("version")) = Str(<<>>)
  /\ Entry(received, S("platform")) = S("linux")
  /\ Entry(received, S("app")) = Num(1)
  /\ local # None

\* C12: create_driver takes the remote path when Server enabled is true and the
\* local path otherwise, never both: the remote path calls no local setup
\* routine, and the local path of a name of the dispatch table requests no
\* session. With Server enabled false and the name android, ios or iphone, no
\* local setup routine is called, Server host and port are set to 127.0.0.1 and
\* 4723, and the session is requested through the Appium client from
\* http://127.0.0.1:4723/wd/hub whatever host and port were configured.
C12_MobileLocalForcesEndpoint ==
  calls > 0 =>
    /\ log[1] = [level |-> "info", remote |-> config.enabled, type |-> config.type]
    /\ config.enabled => (local = None /\ received = None)
    /\ (~config.enabled /\ get_driver_name(config) \notin MobileNames)
         => (session = None /\ requests = 0)
    /\ (~config.enabled /\ get_driver_name(config) \in MobileNames) =>
         /\ local = None /\ received = None
         /\ config.host = <<"127.0.0.1">> /\ config.port = <<"4723">>
         /\ raised \in {"none", "WebDriverException"} => session # None
         /\ session # None =>
              /\ session.url = <<"http://", "127.0.0.1", ":", "4723", "/wd/hub">>
              /\ session.client = "appiumdriver.Remote"

C12_Witness ==
  /\ calls = 1
  /\ ~config.enabled
  /\ config.type = <<"ios", "-", "76">>
  /\ raised = "none"
  /\ local = None
  /\ session.client = "appiumdriver.Remote"
  /\ session.url = <<"http://", "127.0.0.1", ":", "4723", "/wd/hub">>

-----------------------------------------------------------------------------
(* Properties of the remote path of create_driver, under Spec *)

\* C13: a create_driver that takes the remote path and returns has issued exactly
\* one session request, to the server url followed by /wd/hub, through
\* appiumdriver.Remote if the driver name is android, ios or iphone and through
\* webdriver.Remote for every other recognized name, and returns that client's
\* driver; a name outside the recognized set issues no session request.
C13_OneSessionRequest ==
  (calls > 0 /\ config.enabled) =>
    /\ raised = "none" =>
         /\ requests = 1
         /\ session.url = get_server_url(config) \o <<"/wd/hub">>
         /\ session.client = IF get_driver_name(config) \in {<<"android">>, <<"ios">>, <<"iphone">>}
                               THEN "appiumdriver.Remote"
                             ELSE "webdriver.Remote"
         /\ driver = S(session.client)
         /\ get_driver_name(config) \in RecognizedNames
    /\ get_driver_name(config) \notin RecognizedNames => (requests = 0 /\ session = None)
    /\ requests <= 1

C13_Witness ==
  /\ calls = 2
  /\ config.enabled
  /\ config.type = <<"iphone", "-", "76">>
  /\ raised = "none"
  /\ requests = 1
  /\ session.client = "appiumdriver.Remote"
  /\ session.url = <<"http://", "10.0.0.1", ":", "4444", "/wd/hub">>

-----------------------------------------------------------------------------
(* Properties of the failure handling of create_driver, under Spec *)

\* The error records of the log.
Errors == SelectSeq(log, LAMBDA r : r.level = "error")

\* line is the text of s up to its first line break.
IsFirstLine(line, s) ==
  /\ Len(line) <= Len(s)
  /\ \A i \in 1..Len(line) : line[i] = s[i] /\ line[i] # "\n"
  /\ Len(line) < Len(s) => s[Len(line) + 1] = "\n"

\* C14: a create_driver whose construction raised (an unknown driver name, a
\* malformed capability literal, a missing driver path, a backend that cannot be
\* launched) has logged exactly one error, which holds the first line of the
\* exception's message, and propagates that exception; it returns no driver. A
\* create_driver that raised nothing logs no error and returns the driver.
C14_LoggedOnceAndRaisedAgain ==
  calls > 0 =>
    /\ raised # "none" =>
         /\ driver = None
         /\ Len(Errors) = 1
         /\ Errors[1].exc = raised
         /\ IsFirstLine(Errors[1].error_message, message)
    /\ raised = "none" => (Errors = <<>> /\ driver # None /\ message = None)
    /\ get_driver_name(config) \notin RecognizedNames =>
         (raised = "ValueError" /\ message = <<"Unknown driver ">> \o get_driver_name(config))
    /\ (session = None /\ local = None) => raised # "none"
    /\ (~config.enabled /\ config.driver_path = None /\ received # None
          /\ get_driver_name(config)[1] \in {"chrome", "opera", "iexplore", "edge", "phantomjs"})
         => raised = "NoOptionError"
    /\ ((session # None \/ local # None) /\ driver = None) => raised = "WebDriverException"

C14_Witness ==
  /\ calls > 0
  /\ raised = "WebDriverException"
  /\ message = <<"Message: unknown error", "\n", "Stacktrace:", "\n", "#0 main">>
  /\ Errors = <<[level |-> "error", type |-> config.type, exc |-> "WebDriverException",
                 error_message |-> <<"Message: unknown error">>]>>
  /\ driver = None

-----------------------------------------------------------------------------
(* The configuration across create_driver calls, under Spec *)

\* C15 as stated: create_driver leaves the configuration as it was before the
\* call, whatever the Driver type and Server enabled, whether it returns or raises.
C15_AsStated == [][config' = config]_vars

-----------------------------------------------------------------------------
(* Properties of the playwright page, under SpecPlaywright *)

\* C16 as stated: on the page _setup_playwright returns, each operation of the
\* produced object (get, execute_script, refresh, set and get window position, set
\* and get window size, maximize_window, get_cookies, delete_all_cookies,
\* implicitly_wait, close, get_screenshot_as_file) is an attribute bound to an
\* operation, none to a value computed beforehand, and a call of close leaves
\* the page closed.
C16_AsStated ==
  page # None =>
    /\ \A name \in DOMAIN Arguments :
         name \in DOMAIN page.attrs /\ page.attrs[name].kind = "operation"
    /\ fn = "close" => (out.exc = "none" /\ page.closed)

-----------------------------------------------------------------------------
(* Properties of the Jira reporting, under SpecJira *)

\* The add_jira_status calls made for a test key with Jira enabled since the
\* statuses were last cleared, in call order.
ReportsOf(test_key) == SelectSeq(reported, LAMBDA r : r.key = test_key)

\* Those of them that gave a comment that is neither None nor empty.
Commented(test_key) == SelectSeq(ReportsOf(test_key), LAMBDA r : r.comment \notin {None, Str(<<>>)})

\* The stored tuple of a test key.
Stored(test_key) == Get(jira.jira_tests_status, test_key).v

\* C17: with Jira enabled, after add_jira_status calls for one non-empty test key
\* and no clearing in between, the key's stored status is 'Fail' if a call
\* reported 'Fail' and 'Pass' if all reported 'Pass', and its stored comment is
\* the comments of the calls that are neither None nor empty, joined by line
\* breaks in call order (None or empty when no call gave one).
C17_MergedStatusAndComment ==
  \A test_key \in TestKeys :
    ReportsOf(test_key) # <<>> =>
      /\ HasKey(jira.jira_tests_status, test_key)
      /\ Stored(test_key)[1] = test_key
      /\ Stored(test_key)[2] =
           IF \E i \in DOMAIN ReportsOf(test_key) : ReportsOf(test_key)[i].status = S("Fail")
             THEN S("Fail")
           ELSE S("Pass")
      /\ IF Commented(test_key) = <<>> THEN Stored(test_key)[3] \in {None, Str(<<>>)}
         ELSE Stored(test_key)[3] =
                Str(Join([i \in DOMAIN Commented(test_key) |-> Commented(test_key)[i].comment.v],
                         "\n"))

C17_Witness ==
  /\ Len(ReportsOf(S("T-1"))) = 3
  /\ ReportsOf(S("T-1"))[1].status = S("Fail")
  /\ ReportsOf(S("T-1"))[2] = [key |-> S("T-1"), status |-> S("Pass"), comment |-> Str(<<>>)]
  /\ ReportsOf(S("T-1"))[3].status = S("Fail")
  /\ Stored(S("T-1"))[2] = S("Fail")
  /\ Stored(S("T-1"))[3] = Str(<<"The test '", "test_login", "' has failed: ", "expected 1",
                                 "\n", "a">>)

\* The step is a call of change_all_jira_status.
Flush == reports' = reports + 1 /\ fn' = "change_all_jira_status"

\* The test keys stored, in the order of the dictionary.
StoredKeys == [i \in DOMAIN jira.jira_tests_status.v |-> jira.jira_tests_status.v[i].k]

\* C18 as stated: change_all_jira_status calls change_jira_status once for each
\* test key stored and, however it ends, leaves jira_tests_status empty.
C18_AsStated ==
  [][Flush => (out'.sent = StoredKeys /\ jira'.jira_tests_status = Dict(<<>>))]_vars

\* C19 as stated: change_all_jira_status propagates no exception, whatever goes
\* wrong at the tracker, and a failure for one test key does not keep
\* change_jira_status from being called for the keys after it.
C19_AsStated ==
  [][Flush => (out'.exc = "none" /\ Len(out'.sent) = Len(StoredKeys))]_vars

\* C20 as stated: a call of a decorated test runs the test body once; when the
\* body returns, add_jira_status is called with 'Pass' and no comment and the
\* test key has a stored status; when it raises, the stored status is 'Fail' with
\* a comment that holds the first line of the exception's message, and the call
\* raises the body's exception.
C20_AsStated ==
  fn = "jira" =>
    /\ out.ran = 1
    /\ arg[3].raises = None =>
         /\ out.exc = "none"
         /\ HasKey(jira.jira_tests_status, arg[1])
         /\ reported # <<>>
         /\ reported[Len(reported)] = [key |-> arg[1], status |-> S("Pass"), comment |-> None]
    /\ arg[3].raises # None =>
         /\ out.exc = "Exception" /\ out.message = arg[3].raises
         /\ HasKey(jira.jira_tests_status, arg[1])
         /\ Stored(arg[1])[2] = S("Fail")
         /\ \E i \in 0..Len(Stored(arg[1])[3].v) :
              SubSeq(Stored(arg[1])[3].v, i + 1, Len(Stored(arg[1])[3].v))
                = <<"The test '", arg[2][1], "' has failed: ", arg[3].raises[1]>>

\* C21 as stated: whatever the Jira section holds, a call of a decorated test
\* runs the test body, and when the body returns the call returns: the
\* decorator raises nothing of its own.
C21_AsStated ==
  fn = "jira" =>
    /\ out.ran >= 1
    /\ arg[3].raises = None => out.exc = "none"

\* The project of the server's list has the configured value as its name, key or
\* id (an id or key of digits also as the integer it denotes).
SameProject(p, option) ==
  \E field \in {p.name, p.key, p.id} :
    \/ Str(field) = option
    \/ int(Str(field)).exc = "none" /\ int(Str(field)).val = option

\* The configured project and fix version are among those of the server.
Listed(g, server) ==
  /\ \E i \in DOMAIN server.projects : SameProject(server.projects[i], project_option(g))
  /\ \E i \in DOMAIN server.versions : Str(server.versions[i]) = g.fix_version

\* C22 as stated: when the project list of the server holds a project whose id,
\* key or name is the configured one (project_id if set, else project_key, else
\* project_name), check_jira_args does not raise the project-not-found error: with
\* the fix version listed too it raises no ValueError at all.
C22_AsStated ==
  (fn = "check_jira_args" /\ Listed(jira, arg[1])) => out.exc # "ValueError"

\* The attachment list stored for a test key, in the globals g.
StoredAttachments(g, test_key) == g.lists[Get(g.jira_tests_status, test_key).v[4].v]

\* The paths a merge may add to the stored list: those of the attachments list
\* when it is another list than the stored one, none when it is the stored list.
NewPaths(g, test_key) ==
  IF Get(g.jira_tests_status, test_key).v[4].v = g.attachments THEN 0
  ELSE Len(g.lists[g.attachments])

\* C23 as stated: an add_jira_status call for a key that has a stored status
\* leaves no more paths in its stored list than the list held plus the paths
\* added since (no path is duplicated by the merge), and an add_attachment call
\* changes the list stored for no key.
C23_AsStated ==
  [][/\ (fn' = "add_jira_status" /\ reports' # reports
           /\ HasKey(jira.jira_tests_status, arg'[1])
           /\ HasKey(jira'.jira_tests_status, arg'[1]))
        => Len(StoredAttachments(jira', arg'[1]))
             <= Len(StoredAttachments(jira, arg'[1])) + NewPaths(jira, arg'[1])
     /\ (fn' = "add_attachment" /\ reports' # reports)
        => \A i \in DOMAIN jira.jira_tests_status.v :
             StoredAttachments(jira', jira.jira_tests_status.v[i].k)
               = StoredAttachments(jira, jira.jira_tests_status.v[i].k)]_vars

-----------------------------------------------------------------------------
(* Properties of the Checkbox, under SpecCheckbox *)

\* C24: for a checkbox whose click toggles it, of either class, check() leaves it
\* selected and uncheck() leaves it unselected; the call raises nothing, clicks at
\* most once, does not click when the checkbox was already in the target state,
\* and does not click when the call before it was the same call.
C24_CheckAndUncheckIdempotent ==
  (fn \in {"check", "uncheck"} /\ web_element.toggles) =>
    /\ out.exc = "none"
    /\ web_element.selected = (fn = "check")
    /\ out.clicks <= 1
    /\ out.selected = (fn = "check") => out.clicks = 0
    /\ out.previous = fn => out.clicks = 0

\* A second consecutive check() of a Locator that the first check() had to click.
C24_Witness ==
  /\ fn = "check" /\ out.previous = "check" /\ out.clicks = 0
  /\ web_element.class = "Locator" /\ web_element.toggles
  /\ web_element.selected /\ web_element.clicks = 1

====
